---- MODULE Spec2Model ----
(***************************************************************************)
(* A model of the SEE ECMAScript interpreter core: the tree-walk statement *)
(* and expression evaluators of libsee/parse.c and the bytecode machine    *)
(* of libsee/code1.c.                                                      *)
(*                                                                         *)
(* The tree-walk evaluators are recursive C functions that run to          *)
(* completion; they are modelled as recursive operators that thread the    *)
(* execution context (struct context) and the interpreter state (struct    *)
(* SEE_interpreter plus the heap) and return an outcome.  An outcome is    *)
(* either a normal C return (thrown = FALSE, res = the value stored in     *)
(* *res) or a longjmp to the innermost SEE_TRY (thrown = TRUE, res = the   *)
(* thrown value).  Memory written before a longjmp stays written, so the   *)
(* outcome of a throw carries the context and interpreter as they were at  *)
(* the SEE_THROW.                                                          *)
(***************************************************************************)
EXTENDS Integers, Sequences, FiniteSets, TLC

VARIABLES
    engine,     \* "tree": parse.c evaluators; "vm": code1_exec
    pc,         \* "ready" (tree), "exec" (vm: in the instruction loop), "done",
                \* "fault" (vm: memory outside the stacks was accessed)
    prog,       \* the statement node handed to SEE_eval_functionbody
    context,    \* struct context: activation, variable, thisobj, scope
    interp,     \* struct SEE_interpreter, the heap, and the observers
    result,     \* what the run delivered: [thrown, res]
    stack,      \* code1_exec: operand stack, top last
    blocks,     \* code1_exec: block stack, innermost last
    scope,      \* code1_exec: the local scope chain, innermost first
    creg,       \* code1_exec: *res, the completion-value register C
    steps,      \* number of instructions executed so far
    parser,     \* struct parser and the statement it reads
    forin,      \* a for-in loop: the object, the enumerated names, the position
    lexer,      \* struct lex and the input it reads
    file,       \* a FILE and the string SEE_string_fputs writes to it
    cfargs      \* the arguments and the format given to SEE_parse_args, SEE_call_args

\* the variables of the evaluators and of the bytecode machine
mainvars == <<engine, pc, prog, context, interp, result, stack, blocks, scope, creg, steps>>
\* the variables of the other units
subvars == <<parser, forin, lexer, file, cfargs>>
\* what a step of one unit leaves alone
notparser == <<mainvars, forin, lexer, file, cfargs>>
notforin == <<mainvars, parser, lexer, file, cfargs>>
notlexer == <<mainvars, parser, forin, file, cfargs>>
notfile == <<mainvars, parser, forin, lexer, cfargs>>
notcfargs == <<mainvars, parser, forin, lexer, file>>

vars == <<mainvars, subvars>>

-----------------------------------------------------------------------------
(* Bounds of the model *)

\* code1: co->maxstack of the code object under execution
MaxStack == 3
\* code1: co->maxblock of the code object under execution
MaxBlock == 2
\* number of instructions one run of code1_exec executes at most
MaxSteps == 5
\* code1: co->maxargc of the code object under execution
MaxArgc == 1

-----------------------------------------------------------------------------
(* Values: struct SEE_value *)

\* a C NULL pointer (object pointers are heap indexes from 1)
NULL == 0

Undefined == [type |-> "undefined"]
String(s) == [type |-> "string", string |-> s]
Number(n) == [type |-> "number", nan |-> FALSE, number |-> n]
SEE_NaN == [type |-> "number", nan |-> TRUE]
Object(o) == [type |-> "object", object |-> o]
Reference(b, p) == [type |-> "reference", base |-> b, property |-> p]
\* a completion whose value pointer is NULL carries NullValue
NullValue == [type |-> "NULL pointer"]
Completion(t, v, tg) == [type |-> "completion", ctype |-> t, value |-> v, target |-> tg]

-----------------------------------------------------------------------------
(* AST nodes.  loc identifies a statement node (0 for expression nodes).   *)

NoNode == [nodeclass |-> "none", loc |-> 0]
Literal(v) == [nodeclass |-> "Literal", loc |-> 0, value |-> v]
PrimaryExpression_ident(s) == [nodeclass |-> "PrimaryExpression_ident", loc |-> 0, string |-> s]
UnaryExpression_typeof(a) == [nodeclass |-> "UnaryExpression_typeof", loc |-> 0, a |-> a]
CallExpression(e, args) == [nodeclass |-> "CallExpression", loc |-> 0, exp |-> e, args |-> args]
MemberExpression_new(e, args) == [nodeclass |-> "MemberExpression_new", loc |-> 0, mexp |-> e, args |-> args]
FunctionExpression(params, body) ==
    [nodeclass |-> "FunctionExpression", loc |-> 0,
     function |-> [name |-> "", params |-> params, body |-> body]]

MemberExpression_dot(e, name) ==
    [nodeclass |-> "MemberExpression_dot", loc |-> 0, mexp |-> e, name |-> name]
\* the node of lhs = expr and of lhs op= expr, of the class given
AssignmentExpression(class, lhs, expr) ==
    [nodeclass |-> class, loc |-> 0, lhs |-> lhs, expr |-> expr]

\* init is NoNode when the declaration has no initialiser
VariableDeclaration(name, init) ==
    [nodeclass |-> "VariableDeclaration", loc |-> 0, var |-> name, init |-> init]
VariableStatement(l, a) == [nodeclass |-> "VariableStatement", loc |-> l, a |-> a]
FunctionDeclaration(name, params, body) ==
    [nodeclass |-> "FunctionDeclaration", loc |-> 0,
     function |-> [name |-> name, params |-> params, body |-> body]]
\* the three lists of struct SourceElements_node, each in source order
SourceElements(statements, functions, varlist) ==
    [nodeclass |-> "SourceElements", loc |-> 0,
     statements |-> statements, functions |-> functions, vars |-> varlist]
FunctionBody(a) == [nodeclass |-> "FunctionBody", loc |-> 0, a |-> a]

EmptyStatement(l) == [nodeclass |-> "EmptyStatement", loc |-> l]
ExpressionStatement(l, a) == [nodeclass |-> "ExpressionStatement", loc |-> l, a |-> a]
ReturnStatement(l, e) == [nodeclass |-> "ReturnStatement", loc |-> l, expr |-> e]
ReturnStatement_undef(l) == [nodeclass |-> "ReturnStatement_undef", loc |-> l]
BreakStatement(l, tg) == [nodeclass |-> "BreakStatement", loc |-> l, target |-> tg]
ContinueStatement(l, tg) == [nodeclass |-> "ContinueStatement", loc |-> l, target |-> tg]
ThrowStatement(l, a) == [nodeclass |-> "ThrowStatement", loc |-> l, a |-> a]
StatementList(l, a, b) == [nodeclass |-> "StatementList", loc |-> l, a |-> a, b |-> b]
WithStatement(l, a, b) == [nodeclass |-> "WithStatement", loc |-> l, a |-> a, b |-> b]
TryStatement_catch_node(l, blk, id, c) ==
    [nodeclass |-> "TryStatement_catch", loc |-> l, block |-> blk, ident |-> id,
     bcatch |-> c, bfinally |-> NoNode]
TryStatement_finally_node(l, blk, f) ==
    [nodeclass |-> "TryStatement_finally", loc |-> l, block |-> blk, ident |-> "",
     bcatch |-> NoNode, bfinally |-> f]
TryStatement_catchfinally_node(l, blk, id, c, f) ==
    [nodeclass |-> "TryStatement_catchfinally", loc |-> l, block |-> blk, ident |-> id,
     bcatch |-> c, bfinally |-> f]

-----------------------------------------------------------------------------
(* Objects on the heap.  interp.heap is a sequence; an object pointer is   *)
(* an index into it.                                                        *)

NoFunction == [name |-> "", params |-> <<>>, body |-> NoNode]
NoProps == [x \in {} |-> Undefined]

NativeObject(class, props) ==
    [class |-> class, props |-> props, prototype |-> NULL,
     function |-> NoFunction, scope |-> <<>>]

\* obj_Function.c: a function instance keeps its descriptor and the scope
\* chain current at its creation
FunctionInstance(f, sc) ==
    [class |-> "Function", props |-> NoProps, prototype |-> NULL,
     function |-> f, scope |-> sc]

\* interp->Global and interp->Global_eval
Global == 1
Global_eval == 2

\* SEE_Object_new and friends: allocation appends to the heap
NewObject(st, obj) == [st EXCEPT !.heap = Append(@, obj)]
LastObject(st) == Len(st.heap)

RECURSIVE SEE_OBJECT_HASPROPERTY(_, _, _)
SEE_OBJECT_HASPROPERTY(st, o, p) ==
    IF o = NULL THEN FALSE
    ELSE IF p \in DOMAIN st.heap[o].props THEN TRUE
    ELSE SEE_OBJECT_HASPROPERTY(st, st.heap[o].prototype, p)

RECURSIVE SEE_OBJECT_GET(_, _, _)
SEE_OBJECT_GET(st, o, p) ==
    IF o = NULL THEN Undefined
    ELSE IF p \in DOMAIN st.heap[o].props THEN st.heap[o].props[p]
    ELSE SEE_OBJECT_GET(st, st.heap[o].prototype, p)

SEE_OBJECT_PUT(st, o, p, v) ==
    [st EXCEPT !.heap[o].props = (p :> v) @@ @]

SEE_OBJECT_HAS_CALL(st, o) == st.heap[o].class = "Function"
SEE_OBJECT_HAS_CONSTRUCT(st, o) ==
    st.heap[o].class = "Function" /\ st.heap[o].function.body.nodeclass # "none"
IS_ACTIVATION_OBJECT(st, o) == st.heap[o].class = "Activation"

-----------------------------------------------------------------------------
(* Outcomes, SEE_THROW and the traceback list *)

Ok(v, ctx, st) == [thrown |-> FALSE, res |-> v, ctx |-> ctx, st |-> st]

\* a local variable: F applied to the value of v
Let(v, F(_)) == CHOOSE y \in {F(x) : x \in {v}} : TRUE

\* SEE_THROW: longjmp to the innermost SEE_TRY with the value
SEE_THROW(v, ctx, st) == [thrown |-> TRUE, res |-> v, ctx |-> ctx, st |-> st]

\* The observer field throws records the traceback list and the calls in
\* progress at the places where an exception starts: a throw statement, an
\* error raised by the library, the machine's THROW instruction.  The
\* places that pass a caught exception on are not recorded.
ThrowPoint(st) ==
    [st EXCEPT !.throws = Append(@, [traceback |-> st.traceback, frames |-> st.frames])]

\* SEE_TRY: a new try frame whose prev is the current one.  The frames are
\* modelled by their number.
SEE_TRY_enter(st) == [st EXCEPT !.try_context = @ + 1]

\* Leaving a SEE_TRY block, normally or through a longjmp to it, puts the
\* previous frame back.  The frame holds the caught value, the place of the
\* throw and prev; nothing else of the interpreter is put back, the
\* traceback list included: run_input of shell/main.c reads
\* interp->traceback after SEE_CAUGHT to print the calls of the throw.
SEE_TRY_leave(st, previous) == [st EXCEPT !.try_context = previous]

\* error.c: construct an error object of the class and throw it
SEE_error_throw_string(class, msg, ctx, st) ==
    LET st1 == NewObject(st, NativeObject(class, "message" :> String(msg)))
    IN  SEE_THROW(Object(LastObject(st1)), ctx, ThrowPoint(st1))

\* the traceback list, most recent entry first
traceback_enter(st, callee, loc, call_type) ==
    [st EXCEPT !.traceback = <<[callee |-> callee, call_type |-> call_type]>> \o @]

traceback_leave(st, old_tb) == [st EXCEPT !.traceback = old_tb]

-----------------------------------------------------------------------------
(* Scope lookup, GetValue *)

RECURSIVE SEE_scope_lookup(_, _, _)
SEE_scope_lookup(st, sc, name) ==
    IF sc = <<>> THEN Reference(NULL, name)
    ELSE IF SEE_OBJECT_HASPROPERTY(st, Head(sc), name) THEN Reference(Head(sc), name)
    ELSE SEE_scope_lookup(st, Tail(sc), name)

SEE_context_lookup(ctx, st, name) == SEE_scope_lookup(st, ctx.scope, name)

\* parse.c GetValue (8.7.1)
GetValue(v, ctx, st) ==
    IF v.type # "reference" THEN Ok(v, ctx, st)
    ELSE IF v.base = NULL
    THEN IF st.compat_undefdef
         THEN Ok(Undefined, ctx, st)
         ELSE SEE_error_throw_string("ReferenceError", v.property, ctx, st)
    ELSE Ok(SEE_OBJECT_GET(st, v.base, v.property), ctx, st)

\* value.c SEE_ToObject (9.9); primitives are wrapped by constructing the
\* matching built-in
SEE_ToObject(v, ctx, st) ==
    IF v.type = "undefined"
    THEN SEE_error_throw_string("TypeError", "toobject_undefined", ctx, st)
    ELSE IF v.type = "object" THEN Ok(v, ctx, st)
    ELSE IF v.type = "string"
    THEN LET st1 == NewObject(st, NativeObject("String", "value" :> v))
         IN  Ok(Object(LastObject(st1)), ctx, st1)
    ELSE SEE_error_throw_string("TypeError", "toobject_bad", ctx, st)

-----------------------------------------------------------------------------
(* Expression evaluators of parse.c.  Each takes the node, the context and *)
(* the interpreter and returns an outcome.  Let(v, LAMBDA x : e) is the C  *)
(* local variable: e with x standing for the value of v.                   *)

RECURSIVE EVAL(_, _, _)

Literal_eval(n, ctx, st) == Ok(n.value, ctx, st)

\* 11.1.2
PrimaryExpression_ident_eval(n, ctx, st) ==
    Ok(SEE_context_lookup(ctx, st, n.string), ctx, st)

\* the string typeof selects for a value
TypeofString(st, v) ==
    CASE v.type = "undefined" -> "undefined"
      [] v.type = "string" -> "string"
      [] v.type = "object" ->
            IF SEE_OBJECT_HAS_CALL(st, v.object) THEN "function" ELSE "object"
      [] OTHER -> "unknown"

\* 11.4.3.  The store of "undefined" for a null-base Reference is not
\* followed by a return: control falls into GetValue.
UnaryExpression_typeof_eval(n, ctx, st) ==
    Let(EVAL(n.a, ctx, st), LAMBDA o1 :
    IF o1.thrown THEN o1 ELSE
    Let(GetValue(o1.res, o1.ctx, o1.st), LAMBDA o4 :
    IF o4.thrown THEN o4
    ELSE Ok(String(TypeofString(o4.st, o4.res)), o4.ctx, o4.st)))

\* 11.2.4: each argument is evaluated and GetValue'd, left to right; res is
\* the argument array
RECURSIVE Arguments_eval(_, _, _)
Arguments_eval(args, ctx, st) ==
    IF args = <<>> THEN Ok(<<>>, ctx, st) ELSE
    Let(EVAL(Head(args), ctx, st), LAMBDA ov :
    IF ov.thrown THEN ov ELSE
    Let(GetValue(ov.res, ov.ctx, ov.st), LAMBDA og :
    IF og.thrown THEN og ELSE
    Let(Arguments_eval(Tail(args), og.ctx, og.st), LAMBDA rest :
    IF rest.thrown THEN rest
    ELSE Ok(<<og.res>> \o rest.res, rest.ctx, rest.st))))

\* the formal parameters bound by position on a fresh activation object
BindParams(params, argv) ==
    [p \in {params[i] : i \in 1..Len(params)} |->
        LET i == CHOOSE j \in 1..Len(params) :
                    params[j] = p /\ \A k \in (j+1)..Len(params) : params[k] # p
        IN  IF i <= Len(argv) THEN argv[i] ELSE Undefined]

\* [[Call]] of a function instance: a new activation in front of the
\* captured scope, the body evaluated in a new context, and the body's
\* completion translated.  The observer field frames holds the callees of
\* the calls in progress (the C stack), innermost first.
function_inst_call(o, thisobj, argv, ctx, st) ==
    Let(NewObject(st, NativeObject("Activation",
                        BindParams(st.heap[o].function.params, argv))), LAMBDA st1 :
    Let(LastObject(st1), LAMBDA act :
    Let(EVAL(st.heap[o].function.body,
             [activation |-> act, variable |-> act,
              thisobj |-> IF thisobj = NULL THEN Global ELSE thisobj,
              scope |-> <<act>> \o st.heap[o].scope],
             [st1 EXCEPT !.frames = <<o>> \o @]), LAMBDA r :
    Let([r.st EXCEPT !.frames = Tail(@)], LAMBDA st3 :
    IF r.thrown THEN [thrown |-> TRUE, res |-> r.res, ctx |-> ctx, st |-> st3]
    ELSE IF r.res.ctype = "THROW" THEN SEE_THROW(r.res.value, ctx, st3)
    ELSE IF r.res.ctype = "RETURN" THEN Ok(r.res.value, ctx, st3)
    ELSE Ok(Undefined, ctx, st3)))))

\* [[Construct]] of a function instance (13.2.2)
function_inst_construct(o, argv, ctx, st) ==
    Let(NewObject(st, NativeObject("Object", NoProps)), LAMBDA st1 :
    Let(function_inst_call(o, LastObject(st1), argv, ctx, st1), LAMBDA r :
    IF r.thrown THEN r
    ELSE IF r.res.type = "object" THEN r
    ELSE Ok(Object(LastObject(st1)), r.ctx, r.st)))

SEE_OBJECT_CALL(o, thisobj, argv, ctx, st) ==
    IF st.heap[o].function.body.nodeclass # "none"
    THEN function_inst_call(o, thisobj, argv, ctx, st)
    ELSE Ok(Undefined, ctx, st)

SEE_OBJECT_CONSTRUCT(o, argv, ctx, st) == function_inst_construct(o, argv, ctx, st)

\* SEE_parse_program on the strings the modelled programs hand to eval
SEE_parse_program(s) ==
    CASE s = "a" -> ExpressionStatement(8, PrimaryExpression_ident("a"))
      [] s = "'v'" -> ExpressionStatement(8, Literal(String("v")))
      [] OTHER -> EmptyStatement(8)

\* Global.eval (15.1.2.1), reached only from CallExpression_eval, with
\* SEE_COMPAT_EXT1 clear
eval(ctx, thisobj, argv, st) ==
    IF Len(argv) = 0 THEN Ok(Undefined, ctx, st)
    ELSE IF argv[1].type # "string" THEN Ok(argv[1], ctx, st)
    ELSE
    Let(EVAL(SEE_parse_program(argv[1].string),
             [activation |-> ctx.activation, variable |-> ctx.variable,
              thisobj |-> ctx.thisobj, scope |-> ctx.scope],
             [st EXCEPT !.frames = <<Global_eval>> \o @]), LAMBDA r :
    Let(IF r.thrown THEN [r EXCEPT !.ctx = ctx]
        ELSE IF r.res.type # "completion" \/ r.res.ctype # "NORMAL"
        THEN SEE_error_throw_string("EvalError", "internal_error", ctx, r.st)
        ELSE IF r.res.value = NullValue THEN Ok(Undefined, ctx, r.st)
        ELSE Ok(r.res.value, ctx, r.st), LAMBDA o :
    [o EXCEPT !.st.frames = Tail(@)]))

\* 11.2.2
MemberExpression_new_eval(n, ctx, st) ==
    Let(EVAL(n.mexp, ctx, st), LAMBDA o1 :
    IF o1.thrown THEN o1 ELSE
    Let(GetValue(o1.res, o1.ctx, o1.st), LAMBDA o2 :
    IF o2.thrown THEN o2 ELSE
    Let(Arguments_eval(n.args, o2.ctx, o2.st), LAMBDA oa :
    IF oa.thrown THEN oa
    ELSE IF o2.res.type # "object"
    THEN SEE_error_throw_string("TypeError", "new_not_an_object", oa.ctx, oa.st)
    ELSE IF ~SEE_OBJECT_HAS_CONSTRUCT(oa.st, o2.res.object)
    THEN SEE_error_throw_string("TypeError", "not_a_constructor", oa.ctx, oa.st)
    ELSE
    Let(SEE_OBJECT_CONSTRUCT(o2.res.object, oa.res, oa.ctx,
            traceback_enter(oa.st, o2.res.object, n.loc, "CONSTRUCT")), LAMBDA r :
    IF r.thrown THEN r
    ELSE [r EXCEPT !.st = traceback_leave(r.st, oa.st.traceback)]))))

\* The observer field calls records, for each call made, the callee, the
\* base of the Reference the callee expression gave (NULL when it gave a
\* value) and the this-object handed to the callee.
LogCall(st, callee, base, thisobj) ==
    [st EXCEPT !.calls = Append(@, [callee |-> callee, base |-> base, thisobj |-> thisobj])]

\* 11.2.3.  r7, the this-object, is NULL when r6, the base of the callee
\* Reference, is the activation object of the running context.  An
\* exception of the callee leaves the function before traceback_leave.
CallExpression_eval(n, ctx, st) ==
    Let(EVAL(n.exp, ctx, st), LAMBDA o1 :
    IF o1.thrown THEN o1 ELSE
    Let(Arguments_eval(n.args, o1.ctx, o1.st), LAMBDA oa :
    IF oa.thrown THEN oa ELSE
    Let(GetValue(o1.res, oa.ctx, oa.st), LAMBDA o3 :
    IF o3.thrown THEN o3
    ELSE IF o3.res.type = "undefined"
    THEN SEE_error_throw_string("TypeError", "no_such_function", o3.ctx, o3.st)
    ELSE IF o3.res.type # "object"
    THEN SEE_error_throw_string("TypeError", "not_a_function", o3.ctx, o3.st)
    ELSE IF ~SEE_OBJECT_HAS_CALL(o3.st, o3.res.object)
    THEN SEE_error_throw_string("TypeError", "not_callable", o3.ctx, o3.st)
    ELSE
    Let(IF o1.res.type = "reference" THEN o1.res.base ELSE NULL, LAMBDA r6 :
    Let(IF r6 = o3.ctx.activation THEN NULL ELSE r6, LAMBDA r7 :
    Let(LogCall(traceback_enter(o3.st, o3.res.object, n.loc, "CALL"),
                o3.res.object, r6, r7), LAMBDA st1 :
    Let(IF o3.res.object = Global_eval
        THEN eval(o3.ctx, r7, oa.res, st1)
        ELSE SEE_OBJECT_CALL(o3.res.object, r7, oa.res, o3.ctx, st1), LAMBDA r :
    IF r.thrown THEN r
    ELSE [r EXCEPT !.st = traceback_leave(r.st, o3.st.traceback)])))))))

\* 13: a function expression without a name
FunctionExpression_eval(n, ctx, st) ==
    Let(NewObject(st, FunctionInstance(n.function, ctx.scope)), LAMBDA st1 :
    Ok(Object(LastObject(st1)), ctx, st1))

-----------------------------------------------------------------------------
(* Conversions of value.c on primitive values, and the assignment          *)
(* expressions of parse.c (11.13).  The observer field order records, for   *)
(* a compound assignment, the Reference its left-hand side gave, the value  *)
(* GetValue read through it, the value of its right-hand side, and every    *)
(* PutValue.                                                                *)

\* 9.1: a value that is not an object is copied
SEE_ToPrimitive(v) == v

Digits == <<"0", "1", "2", "3", "4", "5", "6", "7", "8", "9">>

\* SEE_lex_number on the strings of the model: one decimal digit is a
\* StrNumericLiteral, the other strings are not
SEE_lex_number(s) ==
    IF \E i \in DOMAIN Digits : Digits[i] = s
    THEN Number((CHOOSE i \in DOMAIN Digits : Digits[i] = s) - 1)
    ELSE SEE_NaN

\* 9.3
SEE_ToNumber(v) ==
    CASE v.type = "undefined" -> SEE_NaN
      [] v.type = "number" -> v
      [] v.type = "string" -> SEE_lex_number(v.string)

\* 9.4, on numbers that are not negative
SEE_ToInteger(v) ==
    Let(SEE_ToNumber(v), LAMBDA res : IF res.nan THEN Number(0) ELSE res)

\* 9.6: fmod(i, 2^32), computed on the two 16-bit halves
SEE_ToUint32(v) ==
    Let(SEE_ToInteger(v).number, LAMBDA i :
    ((i \div 2^16) % 2^16) * 2^16 + (i % 2^16))

\* 9.8.1: SEE_dtoa on a positive integer gives its decimal digits
RECURSIVE dtoa(_)
dtoa(n) == IF n < 10 THEN Digits[n + 1] ELSE dtoa(n \div 10) \o Digits[(n % 10) + 1]

\* 9.8
SEE_ToString(v) ==
    CASE v.type = "undefined" -> String("undefined")
      [] v.type = "number" ->
            IF v.nan THEN String("NaN")
            ELSE IF v.number = 0 THEN String("0")
            ELSE String(dtoa(v.number))
      [] v.type = "string" -> v

Observe(st, e) == [st EXCEPT !.order = Append(@, e)]

\* 8.7.2
PutValue(v, w, ctx, st) ==
    IF v.type # "reference"
    THEN SEE_error_throw_string("ReferenceError", "bad_lvalue", ctx, st)
    ELSE Let(IF v.base = NULL THEN Global ELSE v.base, LAMBDA target :
         Ok(w, ctx, Observe(SEE_OBJECT_PUT(st, target, v.property, w),
                            [ev |-> "PutValue", ref |-> v, v |-> w])))

\* 11.2.1
MemberExpression_dot_eval(n, ctx, st) ==
    Let(EVAL(n.mexp, ctx, st), LAMBDA o1 :
    IF o1.thrown THEN o1 ELSE
    Let(GetValue(o1.res, o1.ctx, o1.st), LAMBDA o2 :
    IF o2.thrown THEN o2 ELSE
    Let(SEE_ToObject(o2.res, o2.ctx, o2.st), LAMBDA o5 :
    IF o5.thrown THEN o5 ELSE
    Ok(Reference(o5.res.object, n.name), o5.ctx, o5.st))))

\* EVAL(bn) and GetValue at the head of each _common function
Operand(bn, ctx, st) ==
    Let(EVAL(bn, ctx, st), LAMBDA o3 :
    IF o3.thrown THEN o3 ELSE
    Let(GetValue(o3.res, o3.ctx, o3.st), LAMBDA o4 :
    IF o4.thrown THEN o4 ELSE
    Ok(o4.res, o4.ctx, Observe(o4.st, [ev |-> "rhs", v |-> o4.res]))))

\* 11.5.1
MultiplicativeExpression_mul_common(r2, bn, ctx, st) ==
    Let(Operand(bn, ctx, st), LAMBDA o4 :
    IF o4.thrown THEN o4 ELSE
    Let(SEE_ToNumber(r2), LAMBDA r5 :
    Let(SEE_ToNumber(o4.res), LAMBDA r6 :
    Ok(IF r5.nan \/ r6.nan THEN SEE_NaN ELSE Number(r5.number * r6.number),
       o4.ctx, o4.st))))

\* 11.6.1
AdditiveExpression_add_common(r2, bn, ctx, st) ==
    Let(Operand(bn, ctx, st), LAMBDA o4 :
    IF o4.thrown THEN o4 ELSE
    Let(SEE_ToPrimitive(r2), LAMBDA r5 :
    Let(SEE_ToPrimitive(o4.res), LAMBDA r6 :
    IF ~(r5.type = "string" \/ r6.type = "string")
    THEN Let(SEE_ToNumber(r5), LAMBDA r8 :
         Let(SEE_ToNumber(r6), LAMBDA r9 :
         Ok(IF r8.nan \/ r9.nan THEN SEE_NaN ELSE Number(r8.number + r9.number),
            o4.ctx, o4.st)))
    ELSE Ok(String(SEE_ToString(r5).string \o SEE_ToString(r6).string),
            o4.ctx, o4.st))))

\* 11.7.3
ShiftExpression_urshift_common(r2, bn, ctx, st) ==
    Let(Operand(bn, ctx, st), LAMBDA o4 :
    IF o4.thrown THEN o4 ELSE
    Let(SEE_ToUint32(r2), LAMBDA r5 :
    Let(SEE_ToUint32(o4.res), LAMBDA r6 :
    Ok(Number(r5 \div 2^(r6 % 32)), o4.ctx, o4.st))))

\* 11.13.1
AssignmentExpression_simple_eval(n, ctx, st) ==
    Let(EVAL(n.lhs, ctx, st), LAMBDA o1 :
    IF o1.thrown THEN o1 ELSE
    Let(EVAL(n.expr, o1.ctx, o1.st), LAMBDA o2 :
    IF o2.thrown THEN o2 ELSE
    Let(GetValue(o2.res, o2.ctx, o2.st), LAMBDA o3 :
    IF o3.thrown THEN o3 ELSE
    PutValue(o1.res, o3.res, o3.ctx, o3.st))))

\* EVAL(n->lhs) and GetValue at the head of each compound assignment: the
\* outcome carries the Reference r1 and the value r2
Target(n, ctx, st) ==
    Let(EVAL(n.lhs, ctx, st), LAMBDA o1 :
    IF o1.thrown THEN o1 ELSE
    Let(GetValue(o1.res, o1.ctx, Observe(o1.st, [ev |-> "lhs", v |-> o1.res])), LAMBDA o2 :
    IF o2.thrown THEN o2 ELSE
    Ok([r1 |-> o1.res, r2 |-> o2.res], o2.ctx,
       Observe(o2.st, [ev |-> "GetValue", v |-> o2.res]))))

\* a compound assignment that evaluates its right-hand side before its
\* left-hand side
AssignmentExpression_addeq_eval_rhsfirst(n, ctx, st) ==
    Let(Operand(n.expr, ctx, st), LAMBDA o4 :
    IF o4.thrown THEN o4 ELSE
    Let(Target(n, o4.ctx, o4.st), LAMBDA t :
    IF t.thrown THEN t ELSE
    Let(AdditiveExpression_add_common(t.res.r2, Literal(o4.res), t.ctx, t.st), LAMBDA o3 :
    PutValue(t.res.r1, o3.res, o3.ctx, o3.st))))

\* 11.13.2
AssignmentExpression_muleq_eval(n, ctx, st) ==
    Let(Target(n, ctx, st), LAMBDA t :
    IF t.thrown THEN t ELSE
    Let(MultiplicativeExpression_mul_common(t.res.r2, n.expr, t.ctx, t.st), LAMBDA o3 :
    IF o3.thrown THEN o3 ELSE
    PutValue(t.res.r1, o3.res, o3.ctx, o3.st)))

AssignmentExpression_addeq_eval(n, ctx, st) ==
    Let(Target(n, ctx, st), LAMBDA t :
    IF t.thrown THEN t ELSE
    Let(AdditiveExpression_add_common(t.res.r2, n.expr, t.ctx, t.st), LAMBDA o3 :
    IF o3.thrown THEN o3 ELSE
    PutValue(t.res.r1, o3.res, o3.ctx, o3.st)))

AssignmentExpression_urshifteq_eval(n, ctx, st) ==
    Let(Target(n, ctx, st), LAMBDA t :
    IF t.thrown THEN t ELSE
    Let(ShiftExpression_urshift_common(t.res.r2, n.expr, t.ctx, t.st), LAMBDA o3 :
    IF o3.thrown THEN o3 ELSE
    PutValue(t.res.r1, o3.res, o3.ctx, o3.st)))

-----------------------------------------------------------------------------
(* Statement evaluators of parse.c.  Each returns a Completion in res, or   *)
(* throws.                                                                  *)

Block_empty_eval(n, ctx, st) == Ok(Completion("NORMAL", NullValue, NULL), ctx, st)

EmptyStatement_eval(n, ctx, st) == Ok(Completion("NORMAL", NullValue, NULL), ctx, st)

\* 12.1
StatementList_eval(n, ctx, st) ==
    Let(EVAL(n.a, ctx, st), LAMBDA o1 :
    IF o1.thrown THEN o1
    ELSE IF o1.res.ctype = "NORMAL"
    THEN Let(EVAL(n.b, o1.ctx, o1.st), LAMBDA o2 :
         IF o2.thrown THEN o2
         ELSE IF o2.res.value = NullValue
         THEN [o2 EXCEPT !.res.value = o1.res.value]
         ELSE o2)
    ELSE o1)

\* 12.4: the value of the expression is stored in the completion as
\* evaluated, without GetValue
ExpressionStatement_eval(n, ctx, st) ==
    Let(EVAL(n.a, ctx, st), LAMBDA o :
    IF o.thrown THEN o
    ELSE Ok(Completion("NORMAL", o.res, NULL), o.ctx, o.st))

ContinueStatement_eval(n, ctx, st) == Ok(Completion("CONTINUE", NullValue, n.target), ctx, st)

BreakStatement_eval(n, ctx, st) == Ok(Completion("BREAK", NullValue, n.target), ctx, st)

ReturnStatement_eval(n, ctx, st) ==
    Let(EVAL(n.expr, ctx, st), LAMBDA o2 :
    IF o2.thrown THEN o2 ELSE
    Let(GetValue(o2.res, o2.ctx, o2.st), LAMBDA ov :
    IF ov.thrown THEN ov
    ELSE Ok(Completion("RETURN", ov.res, NULL), ov.ctx, ov.st)))

ReturnStatement_undef_eval(n, ctx, st) == Ok(Completion("RETURN", Undefined, NULL), ctx, st)

\* WithStatement_eval without the SEE_TRY around the body: an exception of
\* the body leaves the function before the scope is popped
WithStatement_eval_notry(n, ctx, st) ==
    Let(EVAL(n.a, ctx, st), LAMBDA o1 :
    IF o1.thrown THEN o1 ELSE
    Let(GetValue(o1.res, o1.ctx, o1.st), LAMBDA o2 :
    IF o2.thrown THEN o2 ELSE
    Let(SEE_ToObject(o2.res, o2.ctx, o2.st), LAMBDA o3 :
    IF o3.thrown THEN o3 ELSE
    Let(EVAL(n.b, [o3.ctx EXCEPT !.scope = <<o3.res.object>> \o @], o3.st), LAMBDA r :
    IF r.thrown THEN r
    ELSE [r EXCEPT !.ctx.scope = Tail(@)]))))

\* 12.10: the scope pushed before the body is popped after it, whether the
\* body returned or threw; a caught exception is then re-thrown
\* (SEE_DEFAULT_CATCH)
WithStatement_eval(n, ctx, st) ==
    Let(EVAL(n.a, ctx, st), LAMBDA o1 :
    IF o1.thrown THEN o1 ELSE
    Let(GetValue(o1.res, o1.ctx, o1.st), LAMBDA o2 :
    IF o2.thrown THEN o2 ELSE
    Let(SEE_ToObject(o2.res, o2.ctx, o2.st), LAMBDA o3 :
    IF o3.thrown THEN o3 ELSE
    Let(EVAL(n.b, [o3.ctx EXCEPT !.scope = <<o3.res.object>> \o @],
             SEE_TRY_enter(o3.st)), LAMBDA r :
    Let(SEE_TRY_leave(r.st, o3.st.try_context), LAMBDA st2 :
    Let([r.ctx EXCEPT !.scope = Tail(@)], LAMBDA ctx2 :
    IF r.thrown THEN SEE_THROW(r.res, ctx2, st2)
    ELSE [r EXCEPT !.ctx = ctx2, !.st = st2]))))))

\* 12.13
ThrowStatement_eval(n, ctx, st) ==
    Let(EVAL(n.a, ctx, st), LAMBDA o1 :
    IF o1.thrown THEN o1 ELSE
    Let(GetValue(o1.res, o1.ctx, o1.st), LAMBDA o2 :
    IF o2.thrown THEN o2
    ELSE SEE_THROW(o2.res, o2.ctx, ThrowPoint(o2.st))))

\* Helper of 12.14: the catch clause in a new scope holding the caught value
\* under the identifier.  An exception of the catch block comes back as a
\* THROW completion.
TryStatement_catch(n, ctx, C, st) ==
    Let(NewObject(st, NativeObject("Object", NoProps)), LAMBDA st1 :
    Let(LastObject(st1), LAMBDA r2 :
    Let(EVAL(n.bcatch, [ctx EXCEPT !.scope = <<r2>> \o @],
             SEE_TRY_enter(SEE_OBJECT_PUT(st1, r2, n.ident, C))), LAMBDA r :
    Let(SEE_TRY_leave(r.st, st.try_context), LAMBDA st3 :
    Let([r.ctx EXCEPT !.scope = Tail(@)], LAMBDA ctx2 :
    IF r.thrown
    THEN Ok(Completion("THROW", r.res, NULL), ctx2, st3)
    ELSE [r EXCEPT !.ctx = ctx2, !.st = st3])))))

\* SEE_TRY around the evaluation of a block: the outcome with the try
\* frame left again
Tried(n, ctx, st) ==
    Let(EVAL(n, ctx, SEE_TRY_enter(st)), LAMBDA t :
    [t EXCEPT !.st = SEE_TRY_leave(t.st, st.try_context)])

\* a caught exception as the code stores it:
\* SEE_SET_COMPLETION(res, SEE_THROW, SEE_CAUGHT(ctxt), NULL)
Caught(o) == IF o.thrown THEN Completion("THROW", o.res, NULL) ELSE o.res

TryStatement_catch_eval(n, ctx, st) ==
    Let(Tried(n.block, ctx, st), LAMBDA o1 :
    Let(IF o1.thrown THEN TryStatement_catch(n, o1.ctx, o1.res, o1.st) ELSE o1, LAMBDA o2 :
    IF o2.res.ctype = "THROW"
    THEN SEE_THROW(o2.res.value, o2.ctx, o2.st)
    ELSE o2))

\* TryStatement_finally_eval without the copy of a non-NORMAL r2 over res
TryStatement_finally_eval_nocopy(n, ctx, st) ==
    Let(Tried(n.block, ctx, st), LAMBDA o1 :
    Let(Caught(o1), LAMBDA res :
    Let(EVAL(n.bfinally, o1.ctx, o1.st), LAMBDA o2 :
    IF o2.thrown THEN o2
    ELSE IF res.ctype = "THROW"
    THEN SEE_THROW(res.value, o2.ctx, o2.st)
    ELSE Ok(res, o2.ctx, o2.st))))

\* The finally block is evaluated outside any SEE_TRY of this function: an
\* exception of it leaves the function at once.
TryStatement_finally_eval(n, ctx, st) ==
    Let(Tried(n.block, ctx, st), LAMBDA o1 :
    Let(Caught(o1), LAMBDA res :
    Let(EVAL(n.bfinally, o1.ctx, o1.st), LAMBDA o2 :
    IF o2.thrown THEN o2 ELSE
    Let(IF o2.res.ctype # "NORMAL" THEN o2.res ELSE res, LAMBDA res2 :
    IF res2.ctype = "THROW"
    THEN SEE_THROW(res2.value, o2.ctx, o2.st)
    ELSE Ok(res2, o2.ctx, o2.st)))))

\* TryStatement_catchfinally_eval with step 6 left out when the try block
\* threw and the catch block threw as well
TryStatement_catchfinally_eval_skip(n, ctx, st) ==
    Let(Tried(n.block, ctx, st), LAMBDA o1 :
    Let(Caught(o1), LAMBDA r1 :
    Let(IF r1.ctype = "THROW"
        THEN TryStatement_catch(n, o1.ctx, r1.value, o1.st)
        ELSE o1, LAMBDA o4 :
    Let(IF r1.ctype = "THROW" /\ o4.res.ctype # "NORMAL" THEN o4.res ELSE r1, LAMBDA C :
    Let(IF r1.ctype = "THROW" /\ o4.res.ctype = "THROW"
        THEN Ok(Completion("NORMAL", NullValue, NULL), o4.ctx, o4.st)
        ELSE Tried(n.bfinally, o4.ctx, o4.st), LAMBDA o6 :
    Let(Caught(o6), LAMBDA r6 :
    Let(IF r6.ctype # "NORMAL" THEN C ELSE r6, LAMBDA retv :
    IF retv.ctype = "THROW"
    THEN SEE_THROW(retv.value, o6.ctx, o6.st)
    ELSE Ok(retv, o6.ctx, o6.st))))))))

\* The steps are numbered as in the source.  Step 5 replaces C only when
\* the catch block did not complete normally.  After step 6 the source
\* selects C when the completion of the finally block is not NORMAL, and
\* the completion of the finally block otherwise.
TryStatement_catchfinally_eval(n, ctx, st) ==
    Let(Tried(n.block, ctx, st), LAMBDA o1 :
    Let(Caught(o1), LAMBDA r1 :
    Let(IF r1.ctype = "THROW"
        THEN TryStatement_catch(n, o1.ctx, r1.value, o1.st)
        ELSE o1, LAMBDA o4 :
    Let(IF r1.ctype = "THROW" /\ o4.res.ctype # "NORMAL" THEN o4.res ELSE r1, LAMBDA C :
    Let(Tried(n.bfinally, o4.ctx, o4.st), LAMBDA o6 :
    Let(Caught(o6), LAMBDA r6 :
    Let(IF r6.ctype # "NORMAL" THEN C ELSE r6, LAMBDA retv :
    IF retv.ctype = "THROW"
    THEN SEE_THROW(retv.value, o6.ctx, o6.st)
    ELSE Ok(retv, o6.ctx, o6.st))))))))

-----------------------------------------------------------------------------
(* Function bodies and programs (13, 14).  The observer field order        *)
(* records the properties of the variable object when FunctionBody_eval is *)
(* entered and when SourceElements_eval is about to run the first          *)
(* statement.                                                               *)

\* 12.2
VariableDeclaration_eval(n, ctx, st) ==
    IF n.init.nodeclass = "none" THEN Ok(NullValue, ctx, st) ELSE
    Let(SEE_context_lookup(ctx, st, n.var), LAMBDA r1 :
    Let(EVAL(n.init, ctx, st), LAMBDA o2 :
    IF o2.thrown THEN o2 ELSE
    Let(GetValue(o2.res, o2.ctx, o2.st), LAMBDA o3 :
    IF o3.thrown THEN o3 ELSE
    PutValue(r1, o3.res, o3.ctx, o3.st))))

VariableStatement_eval(n, ctx, st) ==
    Let(EVAL(n.a, ctx, st), LAMBDA v :
    IF v.thrown THEN v
    ELSE Ok(Completion("NORMAL", NullValue, NULL), v.ctx, v.st))

\* 10.1.3
FunctionDeclaration_fproc(n, ctx, st) ==
    Let(NewObject(st, FunctionInstance(n.function, ctx.scope)), LAMBDA st1 :
    SEE_OBJECT_PUT(st1, ctx.variable, n.function.name, Object(LastObject(st1))))

\* for (e = n->functions; e; e = e->next) FPROC(e->node, context)
RECURSIVE FprocFunctions(_, _, _)
FprocFunctions(functions, ctx, st) ==
    IF functions = <<>> THEN st
    ELSE FprocFunctions(Tail(functions), ctx,
                        FunctionDeclaration_fproc(Head(functions), ctx, st))

\* for (v = n->vars; v; v = v->next) ...
RECURSIVE FprocVars(_, _, _)
FprocVars(varlist, ctx, st) ==
    IF varlist = <<>> THEN st
    ELSE FprocVars(Tail(varlist), ctx,
            IF ~SEE_OBJECT_HASPROPERTY(st, ctx.variable, Head(varlist))
            THEN SEE_OBJECT_PUT(st, ctx.variable, Head(varlist), Undefined)
            ELSE st)

\* the declared variables set to undefined whether the variable object has
\* them or not
SourceElements_fproc_overwrite(n, ctx, st) ==
    Let(FprocFunctions(n.functions, ctx, st), LAMBDA st1 :
    [st1 EXCEPT !.heap[ctx.variable].props =
        [v \in {n.vars[i] : i \in DOMAIN n.vars} |-> Undefined] @@ @])

SourceElements_fproc(n, ctx, st) ==
    FprocVars(n.vars, ctx, FprocFunctions(n.functions, ctx, st))

\* the loop of SourceElements_eval from statement e on; res holds the
\* completion so far
RECURSIVE RunStatements(_, _, _, _)
RunStatements(statements, res, ctx, st) ==
    IF statements = <<>> THEN Ok(res, ctx, st) ELSE
    Let(EVAL(Head(statements), ctx, st), LAMBDA o :
    IF o.thrown THEN o
    ELSE IF o.res.ctype # "NORMAL" THEN o
    ELSE RunStatements(Tail(statements), o.res, o.ctx, o.st))

SourceElements_eval(n, ctx, st) ==
    RunStatements(n.statements, Completion("NORMAL", NullValue, NULL), ctx,
        Observe(st, [ev |-> "SourceElements", node |-> n, variable |-> ctx.variable,
                     props |-> st.heap[ctx.variable].props]))

FunctionBody_eval(n, ctx, st) ==
    EVAL(n.a, ctx,
         SourceElements_fproc(n.a, ctx,
            Observe(st, [ev |-> "FunctionBody", node |-> n.a, variable |-> ctx.variable,
                         props |-> st.heap[ctx.variable].props])))

\* The eval function of the node's class
Dispatch(n, ctx, st) ==
    CASE n.nodeclass = "Literal" -> Literal_eval(n, ctx, st)
      [] n.nodeclass = "PrimaryExpression_ident" -> PrimaryExpression_ident_eval(n, ctx, st)
      [] n.nodeclass = "UnaryExpression_typeof" -> UnaryExpression_typeof_eval(n, ctx, st)
      [] n.nodeclass = "CallExpression" -> CallExpression_eval(n, ctx, st)
      [] n.nodeclass = "MemberExpression_new" -> MemberExpression_new_eval(n, ctx, st)
      [] n.nodeclass = "FunctionExpression" -> FunctionExpression_eval(n, ctx, st)
      [] n.nodeclass = "MemberExpression_dot" -> MemberExpression_dot_eval(n, ctx, st)
      [] n.nodeclass = "AssignmentExpression_simple" -> AssignmentExpression_simple_eval(n, ctx, st)
      [] n.nodeclass = "AssignmentExpression_muleq" -> AssignmentExpression_muleq_eval(n, ctx, st)
      [] n.nodeclass = "AssignmentExpression_addeq" -> AssignmentExpression_addeq_eval(n, ctx, st)
      [] n.nodeclass = "AssignmentExpression_urshifteq" -> AssignmentExpression_urshifteq_eval(n, ctx, st)
      [] n.nodeclass = "VariableDeclaration" -> VariableDeclaration_eval(n, ctx, st)
      [] n.nodeclass = "VariableStatement" -> VariableStatement_eval(n, ctx, st)
      [] n.nodeclass = "SourceElements" -> SourceElements_eval(n, ctx, st)
      [] n.nodeclass = "FunctionBody" -> FunctionBody_eval(n, ctx, st)
      [] n.nodeclass = "Block_empty" -> Block_empty_eval(n, ctx, st)
      [] n.nodeclass = "EmptyStatement" -> EmptyStatement_eval(n, ctx, st)
      [] n.nodeclass = "StatementList" -> StatementList_eval(n, ctx, st)
      [] n.nodeclass = "ExpressionStatement" -> ExpressionStatement_eval(n, ctx, st)
      [] n.nodeclass = "ContinueStatement" -> ContinueStatement_eval(n, ctx, st)
      [] n.nodeclass = "BreakStatement" -> BreakStatement_eval(n, ctx, st)
      [] n.nodeclass = "ReturnStatement" -> ReturnStatement_eval(n, ctx, st)
      [] n.nodeclass = "ReturnStatement_undef" -> ReturnStatement_undef_eval(n, ctx, st)
      [] n.nodeclass = "WithStatement" -> WithStatement_eval(n, ctx, st)
      [] n.nodeclass = "ThrowStatement" -> ThrowStatement_eval(n, ctx, st)
      [] n.nodeclass = "TryStatement_catch" -> TryStatement_catch_eval(n, ctx, st)
      [] n.nodeclass = "TryStatement_finally" -> TryStatement_finally_eval(n, ctx, st)
      [] n.nodeclass = "TryStatement_catchfinally" -> TryStatement_catchfinally_eval(n, ctx, st)

\* The EVAL macro: call the eval function of the node's class.  The observer
\* field evals records, when the evaluation of a statement node ends, the
\* node, how it ended, and context->scope before and after.
EVAL(n, ctx, st) ==
    Let(Dispatch(n, ctx, st), LAMBDA r :
    IF n.loc = 0 THEN r
    ELSE [r EXCEPT !.st.evals =
            Append(@, [loc |-> n.loc, out |-> Caught(r), thrown |-> r.thrown,
                       scope_in |-> ctx.scope, scope_out |-> r.ctx.scope])])

-----------------------------------------------------------------------------
(* The programs under evaluation.  A program is one statement; its leaves   *)
(* are simple statements placed at location l.                              *)

\* the literal written at a location: "s" in the try block, "c" in the
\* catch block, "f" in the finally block
LitName(l) == CASE l = 1 -> "s" [] l = 2 -> "c" [] l = 3 -> "f" [] OTHER -> "v"

\* the statement a break or continue of the leaves targets
LoopTarget == 9

Leaf(k, l) ==
    CASE k = "lit" -> ExpressionStatement(l, Literal(String(LitName(l))))
      [] k = "ident" -> ExpressionStatement(l, PrimaryExpression_ident("a"))
      [] k = "caught" -> ExpressionStatement(l, PrimaryExpression_ident("e"))
      [] k = "empty" -> EmptyStatement(l)
      [] k = "break" -> BreakStatement(l, LoopTarget)
      [] k = "continue" -> ContinueStatement(l, LoopTarget)
      [] k = "return" -> ReturnStatement(l, Literal(String(LitName(l))))
      [] k = "return_undef" -> ReturnStatement_undef(l)
      [] k = "throw" -> ThrowStatement(l, Literal(String(LitName(l))))
      [] k = "typeof" ->
            ExpressionStatement(l, UnaryExpression_typeof(PrimaryExpression_ident("undeclared")))
      [] k = "typeof_a" ->
            ExpressionStatement(l, UnaryExpression_typeof(PrimaryExpression_ident("a")))
      [] k = "callf" ->
            ExpressionStatement(l, CallExpression(PrimaryExpression_ident("f"), <<>>))
      [] k = "callg" ->
            ExpressionStatement(l, CallExpression(PrimaryExpression_ident("g"), <<>>))
      [] k = "callm" ->
            ExpressionStatement(l, CallExpression(PrimaryExpression_ident("m"), <<>>))
      [] k = "callh" ->
            ExpressionStatement(l, CallExpression(PrimaryExpression_ident("h"), <<>>))
      [] k = "callarg" ->
            ExpressionStatement(l, CallExpression(PrimaryExpression_ident("f"),
                                      <<PrimaryExpression_ident("undeclared")>>))
      [] k = "newf" ->
            ExpressionStatement(l, MemberExpression_new(PrimaryExpression_ident("f"), <<>>))
      [] k = "newg" ->
            ExpressionStatement(l, MemberExpression_new(PrimaryExpression_ident("g"), <<>>))
      [] k = "closure" ->
            \* (function () { return h() })()
            ExpressionStatement(l, CallExpression(
                FunctionExpression(<<>>,
                    ReturnStatement(7, CallExpression(PrimaryExpression_ident("h"), <<>>))),
                <<>>))
      [] k = "closure_g" ->
            \* (function () { try { g() } catch (e) { } return f() })()
            ExpressionStatement(l, CallExpression(
                FunctionExpression(<<>>,
                    StatementList(7,
                        TryStatement_catch_node(7,
                            ExpressionStatement(7,
                                CallExpression(PrimaryExpression_ident("g"), <<>>)),
                            "e", EmptyStatement(7)),
                        ReturnStatement(7,
                            CallExpression(PrimaryExpression_ident("f"), <<>>)))),
                <<>>))
      [] k = "eval_a" ->
            ExpressionStatement(l, CallExpression(PrimaryExpression_ident("eval"),
                                      <<Literal(String("a"))>>))
      [] k = "eval_v" ->
            ExpressionStatement(l, CallExpression(PrimaryExpression_ident("eval"),
                                      <<Literal(String("'v'"))>>))

TryKinds == {"lit", "caught", "empty", "break", "continue", "return", "throw", "callg"}

AllKinds ==
    TryKinds \cup {"ident", "return_undef", "typeof", "typeof_a", "callf", "callm", "callh",
                   "callarg", "newf", "newg", "closure", "closure_g", "eval_a", "eval_v"}

\* try { S } catch (e) { C } finally { F }
CatchFinallyPrograms ==
    {TryStatement_catchfinally_node(4, Leaf(s, 1), "e", Leaf(c, 2), Leaf(f, 3)) :
        s \in TryKinds, c \in TryKinds, f \in TryKinds}

\* try { S } finally { F }
FinallyPrograms ==
    {TryStatement_finally_node(4, Leaf(s, 1), Leaf(f, 3)) : s \in AllKinds, f \in TryKinds}

\* try { S } catch (e) { C }
CatchPrograms ==
    {TryStatement_catch_node(4, Leaf(s, 1), "e", Leaf(c, 2)) : s \in AllKinds, c \in TryKinds}

\* with (o) S, with (undeclared) S, with ("str") S
WithPrograms ==
    {WithStatement(5, PrimaryExpression_ident("o"), Leaf(s, 1)) : s \in AllKinds}
    \cup {WithStatement(5, PrimaryExpression_ident("undeclared"), Leaf("lit", 1)),
          WithStatement(5, Literal(String("str")), Leaf("throw", 1))}

\* statements nested in one another, and statements in sequence
NestedPrograms ==
    {WithStatement(5, PrimaryExpression_ident("o"),
        TryStatement_finally_node(4, Leaf(s, 1), Leaf(f, 3))) :
        s \in {"throw", "callm", "break"}, f \in {"empty", "return", "throw"}}
    \cup {TryStatement_catch_node(4,
            WithStatement(5, PrimaryExpression_ident("o"), Leaf(s, 1)), "e", Leaf(c, 2)) :
            s \in {"throw", "callg", "lit"}, c \in {"caught", "callm", "throw"}}
    \cup {TryStatement_catch_node(4, Leaf(s, 1), "e",
            WithStatement(5, PrimaryExpression_ident("o"), Leaf(c, 2))) :
            s \in {"throw", "callg"}, c \in {"caught", "callm", "throw", "break"}}
    \cup {StatementList(6, TryStatement_catch_node(4, Leaf(s, 1), "e", Leaf(c, 2)),
                           Leaf(t, 10)) :
            s \in {"callg", "newg", "throw", "callf"}, c \in {"empty", "callf"},
            t \in {"callf", "callg", "lit", "throw"}}

LeafPrograms == {Leaf(k, 1) : k \in AllKinds}

Programs ==
    CatchFinallyPrograms \cup FinallyPrograms \cup CatchPrograms \cup WithPrograms
        \cup NestedPrograms \cup LeafPrograms

-----------------------------------------------------------------------------
(* Labels and targets of the parser, parse.c.  The parser reads a source   *)
(* statement and keeps two lists: parser->labels, the labels seen and not  *)
(* yet given to a statement, and parser->targets, the labels of the        *)
(* statements being parsed.  A SyntaxError is a longjmp out of the parse.  *)

\* source statements; id is the address the node will get (NEW_NODE)
SrcEmpty == [kind |-> "EmptyStatement"]
SrcExpr == [kind |-> "ExpressionStatement"]
\* an expression statement that is a function expression with the body
SrcFunction(stmts) == [kind |-> "ExpressionStatement", function |-> stmts]
SrcBlock(stmts) == [kind |-> "Block", stmts |-> stmts]
SrcWhile(id, body) == [kind |-> "IterationStatement", id |-> id, body |-> body]
SrcSwitch(id, stmts) == [kind |-> "SwitchStatement", id |-> id, stmts |-> stmts]
SrcWith(id, body) == [kind |-> "WithStatement", id |-> id, body |-> body]
SrcLabelled(name, body) == [kind |-> "LabelledStatement", name |-> name, body |-> body]
\* name is NoLabel when the keyword is followed by a semicolon
SrcBreak(id, name) == [kind |-> "BreakStatement", id |-> id, name |-> name]
SrcContinue(id, name) == [kind |-> "ContinueStatement", id |-> id, name |-> name]

NoLabel == "(none)"
IMPLICIT_CONTINUE_LABEL == "(implicit continue)"
IMPLICIT_BREAK_LABEL == "(implicit break)"
TARGET_TYPE_BREAK == "break"
TARGET_TYPE_CONTINUE == "continue"

\* parser_init; the observer field parsed records, for each statement that
\* Statement_parse returned, the two stacks before and after it
parser_init == [labels |-> <<>>, targets |-> <<>>, lookups |-> <<>>, parsed |-> <<>>]

Parsed(p) == [err |-> FALSE, p |-> p]
SyntaxError(p) == [err |-> TRUE, p |-> p]

\* all the pushed labels become targets naming the statement; the label
\* popped last ends up first in the target list
target_push(p, target, type) ==
    [p EXCEPT !.labels = <<>>,
              !.targets = [i \in 1..Len(p.labels) |->
                            [label |-> p.labels[Len(p.labels) + 1 - i],
                             target |-> target, type |-> type]] \o @]

\* every target at the front of the list that names the statement goes
\* back to the label list
RECURSIVE target_pop(_, _)
target_pop(p, target) ==
    IF p.targets # <<>> /\ Head(p.targets).target = target
    THEN target_pop([p EXCEPT !.targets = Tail(@),
                              !.labels = <<Head(p.targets).label>> \o @], target)
    ELSE p

label_push(p, name) ==
    IF /\ name \notin {IMPLICIT_CONTINUE_LABEL, IMPLICIT_BREAK_LABEL}
       /\ \/ \E i \in DOMAIN p.labels : p.labels[i] = name
          \/ \E i \in DOMAIN p.targets : p.targets[i].label = name
    THEN SyntaxError(p)
    ELSE Parsed([p EXCEPT !.labels = <<name>> \o @])

label_pop(p, name) ==
    IF p.labels = <<>> \/ Head(p.labels) # name
    THEN SyntaxError(p)
    ELSE Parsed([p EXCEPT !.labels = Tail(@)])

\* The first target with the name decides: the statement it names is the
\* result if its type allows the jump, and a SyntaxError otherwise.  The
\* observer field lookups records what the jump node was given.
target_lookup(p, node, name, type) ==
    IF \E i \in DOMAIN p.targets : p.targets[i].label = name
    THEN Let(p.targets[CHOOSE i \in DOMAIN p.targets :
                        /\ p.targets[i].label = name
                        /\ \A j \in 1..(i - 1) : p.targets[j].label # name], LAMBDA t :
         IF t.type \cap type = {}
         THEN SyntaxError([p EXCEPT !.lookups =
                            Append(@, [node |-> node, err |-> TRUE, target |-> NULL])])
         ELSE Parsed([p EXCEPT !.lookups =
                            Append(@, [node |-> node, err |-> FALSE, target |-> t.target])]))
    ELSE SyntaxError([p EXCEPT !.lookups =
                            Append(@, [node |-> node, err |-> TRUE, target |-> NULL])])

\* the rest of a parse function after a step that may have raised
AndThen(o, F(_)) == Let(o, LAMBDA r : IF r.err THEN r ELSE F(r.p))

RECURSIVE Statement_parse(_, _)
RECURSIVE StatementList_parse(_, _)

Block_parse(s, p) ==
    AndThen(StatementList_parse(s.stmts, target_push(p, NULL, {})), LAMBDA p1 :
    Parsed(target_pop(p1, NULL)))

\* PARSE(Expression) reaches FunctionExpression_parse, FunctionBody_parse and
\* SourceElements_parse, which parse the statements of the body with the
\* labels and the targets of the parser as they are
ExpressionStatement_parse(s, p) ==
    IF "function" \in DOMAIN s
    THEN AndThen(StatementList_parse(s.function, target_push(p, NULL, {})), LAMBDA p1 :
         Parsed(target_pop(p1, NULL)))
    ELSE Parsed(target_pop(target_push(p, NULL, {}), NULL))

EmptyStatement_parse(s, p) == Parsed(p)

IterationStatement_parse(s, p) ==
    AndThen(Statement_parse(s.body,
                target_push(p, s.id, {TARGET_TYPE_BREAK, TARGET_TYPE_CONTINUE})),
            LAMBDA p1 : Parsed(target_pop(p1, s.id)))

SwitchStatement_parse(s, p) ==
    AndThen(StatementList_parse(s.stmts, target_push(p, s.id, {TARGET_TYPE_BREAK})),
            LAMBDA p1 : Parsed(target_pop(p1, s.id)))

WithStatement_parse(s, p) ==
    AndThen(Statement_parse(s.body, target_push(p, s.id, {})),
            LAMBDA p1 : Parsed(target_pop(p1, s.id)))

LabelledStatement_parse(s, p) ==
    AndThen(label_push(p, s.name), LAMBDA p1 :
    AndThen(Statement_parse(s.body, p1), LAMBDA p2 :
    label_pop(p2, s.name)))

\* the function ends with a second target_push, not with a target_pop
ContinueStatement_parse(s, p) ==
    AndThen(target_lookup(target_push(p, s.id, {}), s.id,
                IF s.name = NoLabel THEN IMPLICIT_CONTINUE_LABEL ELSE s.name,
                {TARGET_TYPE_CONTINUE}), LAMBDA p1 :
    Parsed(target_push(p1, s.id, {})))

BreakStatement_parse(s, p) ==
    AndThen(target_lookup(target_push(p, s.id, {}), s.id,
                IF s.name = NoLabel THEN IMPLICIT_BREAK_LABEL ELSE s.name,
                {TARGET_TYPE_BREAK}), LAMBDA p1 :
    Parsed(target_push(p1, s.id, {})))

Statement_parse(s, p) ==
    AndThen(
    CASE s.kind = "Block" -> Block_parse(s, p)
      [] s.kind = "EmptyStatement" -> EmptyStatement_parse(s, p)
      [] s.kind = "ExpressionStatement" -> ExpressionStatement_parse(s, p)
      [] s.kind = "IterationStatement" ->
            AndThen(label_push(p, IMPLICIT_CONTINUE_LABEL), LAMBDA p1 :
            AndThen(label_push(p1, IMPLICIT_BREAK_LABEL), LAMBDA p2 :
            AndThen(IterationStatement_parse(s, p2), LAMBDA p3 :
            AndThen(label_pop(p3, IMPLICIT_BREAK_LABEL), LAMBDA p4 :
            label_pop(p4, IMPLICIT_CONTINUE_LABEL)))))
      [] s.kind = "ContinueStatement" -> ContinueStatement_parse(s, p)
      [] s.kind = "BreakStatement" -> BreakStatement_parse(s, p)
      [] s.kind = "WithStatement" -> WithStatement_parse(s, p)
      [] s.kind = "SwitchStatement" ->
            AndThen(label_push(p, IMPLICIT_BREAK_LABEL), LAMBDA p1 :
            AndThen(SwitchStatement_parse(s, p1), LAMBDA p2 :
            label_pop(p2, IMPLICIT_BREAK_LABEL)))
      [] s.kind = "LabelledStatement" -> LabelledStatement_parse(s, p),
    LAMBDA p1 :
    Parsed([p1 EXCEPT !.parsed = Append(@, [kind |-> s.kind,
                                            labels |-> p.labels, targets |-> p.targets,
                                            labels_after |-> p1.labels,
                                            targets_after |-> p1.targets])]))

StatementList_parse(stmts, p) ==
    IF stmts = <<>> THEN Parsed(p)
    ELSE AndThen(Statement_parse(Head(stmts), p), LAMBDA p1 :
         StatementList_parse(Tail(stmts), p1))

\* the jump statements of the sources: node 1
SrcJumps ==
    {SrcBreak(1, n) : n \in {NoLabel, "a", "b"}}
        \cup {SrcContinue(1, n) : n \in {NoLabel, "a", "b"}}

\* the sources around a jump statement j
SrcAround(j) ==
    { j,
      SrcWhile(2, j),
      SrcLabelled("a", SrcWhile(2, j)),
      SrcLabelled("a", SrcLabelled("b", SrcWhile(2, j))),
      SrcLabelled("a", SrcWhile(2, SrcLabelled("b", SrcWhile(3, j)))),
      SrcLabelled("a", SrcWhile(2, SrcBlock(<<SrcExpr, j>>))),
      SrcLabelled("a", SrcBlock(<<SrcEmpty, SrcWhile(2, j)>>)),
      SrcLabelled("a", SrcBlock(<<SrcExpr, SrcWhile(2, j)>>)),
      SrcLabelled("a", SrcBlock(<<SrcExpr, j>>)),
      SrcLabelled("a", SrcWith(4, SrcWhile(2, j))),
      SrcLabelled("a", SrcSwitch(5, <<SrcExpr, j>>)),
      SrcWhile(2, SrcSwitch(5, <<j>>)),
      SrcWhile(2, SrcLabelled("b", j)),
      SrcLabelled("a", SrcBlock(<<SrcLabelled("b", SrcBlock(<<>>)), SrcWhile(2, j)>>)),
      SrcLabelled("a", SrcWhile(2, SrcLabelled("a", SrcWhile(3, j)))),
      SrcBlock(<<SrcLabelled("a", SrcWhile(2, SrcEmpty)), SrcLabelled("a", SrcWhile(3, j))>>) }

Sources == UNION {SrcAround(j) : j \in SrcJumps}

\* the sources with a jump statement j in the body of a function: the
\* statements 2, 4 and 5 are outside the function, the loop 3 is inside
SrcAroundFunction(j) ==
    { SrcFunction(<<j>>),
      SrcWhile(2, SrcFunction(<<j>>)),
      SrcLabelled("a", SrcWhile(2, SrcFunction(<<j>>))),
      SrcSwitch(5, <<SrcFunction(<<j>>)>>),
      SrcWith(4, SrcFunction(<<j>>)),
      SrcLabelled("a", SrcBlock(<<SrcFunction(<<j>>)>>)),
      SrcFunction(<<SrcWhile(3, j)>>),
      SrcWhile(2, SrcFunction(<<SrcWhile(3, j)>>)),
      SrcLabelled("a", SrcWhile(2, SrcFunction(<<SrcLabelled("b", SrcWhile(3, j))>>))) }

FunctionSources == UNION {SrcAroundFunction(j) : j \in SrcJumps}

NoParser == [state |-> "none", source |-> SrcEmpty, err |-> FALSE, p |-> parser_init]

-----------------------------------------------------------------------------
(* Enumeration of property names, enumerate.c, and the for-in loop of      *)
(* parse.c over its result.  An object is modelled by its own properties   *)
(* in the order its enumerator returns them, a prototype chain by the      *)
(* sequence of its objects, the enumerated object first.  Property names   *)
(* are interned strings: a name is compared by its address.                *)

\* number of properties the body of one for-in loop deletes at most
MaxDelete == 1

\* Addresses are counted in units of 2^24 bytes, so that the 32 bits of an
\* int hold 8 bits of them.
IntBits == 8

\* the value of an int expression: two's complement wrap-around
ToInt(x) == ((x + 2^(IntBits - 1)) % 2^IntBits) - 2^(IntBits - 1)

Prop(name, dontenum) == [name |-> name, dontenum |-> dontenum]

\* make_list: the entries of the object at depth, then those of its
\* prototypes, each put at the head of the list
RECURSIVE make_list(_, _, _)
make_list(chain, depth, head) ==
    IF depth > Len(chain) - 1 THEN head
    ELSE make_list(chain, depth + 1,
            [i \in 1..Len(chain[depth + 1]) |->
                [name |-> chain[depth + 1][Len(chain[depth + 1]) + 1 - i].name,
                 depth |-> depth,
                 dontenum |-> chain[depth + 1][Len(chain[depth + 1]) + 1 - i].dontenum]]
            \o head)

\* slist_cmp: the difference of the two addresses taken as ints, or of the
\* depths when the names are the same
slist_cmp(sa, sb, address) ==
    IF sa.name # sb.name
    THEN ToInt(ToInt(address[sa.name]) - ToInt(address[sb.name]))
    ELSE sa.depth - sb.depth

\* qsort: the array is left in an order in which no element compares
\* greater than the next.  For a comparison that is a total order this is
\* the sorted array; slist_cmp is not one when the subtraction overflows,
\* and then the order depends on the sort algorithm.
qsort(slist, address) ==
    {[i \in DOMAIN slist |-> slist[perm[i]]] : perm \in
        {p \in Permutations(DOMAIN slist) :
            \A i \in 1..(Len(slist) - 1) :
                slist_cmp(slist[p[i]], slist[p[i + 1]], address) <= 0}}

\* the scan of the sorted array: an entry whose name differs from the name
\* of the entry before it is kept unless it has DONTENUM
RECURSIVE Scan(_, _, _)
Scan(slist, i, current) ==
    IF i > Len(slist) THEN <<>>
    ELSE IF slist[i].name # current
    THEN (IF slist[i].dontenum THEN <<>> ELSE <<slist[i].name>>)
            \o Scan(slist, i + 1, slist[i].name)
    ELSE Scan(slist, i + 1, current)

\* SEE_enumerate: the arrays of names it can return
SEE_enumerate(chain, address) ==
    {Scan(sorted, 1, "") : sorted \in qsort(make_list(chain, 0, <<>>), address)}

\* SEE_OBJECT_HASPROPERTY of the enumerated object
HasProperty(chain, name) ==
    \E d \in DOMAIN chain : \E i \in DOMAIN chain[d] : chain[d][i].name = name

\* [[Delete]] of the own property of the object at depth d
Delete(chain, d, name) ==
    [chain EXCEPT ![d] = SelectSeq(@, LAMBDA e : e.name # name)]

\* the properties the body of the loop may delete
Deletable(f) ==
    IF Cardinality(f.deleted) < MaxDelete
    THEN UNION {{<<d, f.chain[d][j].name>> : j \in DOMAIN f.chain[d]} : d \in DOMAIN f.chain}
    ELSE {}

\* the objects enumerated, and their prototypes
EnumObjects ==
    { <<Prop("a", FALSE)>>,
      <<Prop("a", TRUE), Prop("b", FALSE)>>,
      <<Prop("a", FALSE), Prop("b", FALSE), Prop("c", FALSE)>>,
      <<Prop("a", FALSE), Prop("c", FALSE), Prop("b", FALSE)>>,
      <<Prop("c", FALSE), Prop("a", TRUE), Prop("b", FALSE)>>,
      <<Prop("b", FALSE), Prop("c", TRUE)>>,
      <<>> }

EnumPrototypes ==
    { <<Prop("a", FALSE)>>,
      <<Prop("a", FALSE), Prop("q", FALSE)>>,
      <<Prop("q", FALSE), Prop("a", TRUE)>>,
      <<Prop("b", TRUE), Prop("q", FALSE)>>,
      <<Prop("c", FALSE)>> }

EnumChains ==
    {<<o>> : o \in EnumObjects} \cup {<<o, p>> : o \in EnumObjects, p \in EnumPrototypes}

\* where the interned names lie in memory, in units of 2^24 bytes
Addresses ==
    { [a |-> 1, b |-> 2, c |-> 3, q |-> 4],
      [a |-> 250, b |-> 5, c |-> 240, q |-> 10],
      [a |-> 16, b |-> 96, c |-> 176, q |-> 112] }

NoForin == [state |-> "none", chain |-> <<>>, address |-> <<>>, props |-> <<>>,
            i |-> 0, visits |-> <<>>, deleted |-> {}]

-----------------------------------------------------------------------------
(* The lexer, lex.c.  The input is a sequence of characters; pos is the  *)
(* position of lex->input->lookahead, Len(input) + 1 at end of input.      *)
(* A scanning function returns the token, the position after it, the       *)
(* position where the token starts, whether it threw a SyntaxError, the    *)
(* number of times it incremented lex->next_lineno, and what it stored in  *)
(* lex->value (NullValue when it stored nothing).                          *)

\* the longest input, in pieces
MaxPieces == 5

\* the longest input of the numeric literals, in characters
MaxChars == 4

\* 7.2, 7.3
is_WhiteSpace(c) == c \in {"\t", " "}
is_LineTerminator(c) == c \in {"\n", "\r"}

ATEOF(input, pos) == pos > Len(input)

Scanned(token, pos, start) ==
    [token |-> token, pos |-> pos, start |-> start, err |-> FALSE, lines |-> 0,
     value |-> NullValue]
SYNTAX_ERROR(pos) ==
    [token |-> "SyntaxError", pos |-> pos, start |-> pos, err |-> TRUE, lines |-> 0,
     value |-> NullValue]

\* the characters input[a..b] as a string
RECURSIVE Text(_, _, _)
Text(input, a, b) == IF a > b THEN "" ELSE input[a] \o Text(input, a + 1, b)

\* 7.6: the letters, the decimal digits and the hexadecimal digits that
\* occur in the inputs
is_Letter(c) == c \in {"a", "b", "e", "g", "x", "E", "X"}
is_UnicodeDigit(c) == \E i \in DOMAIN Digits : Digits[i] = c
is_HexDigit(c) == is_UnicodeDigit(c) \/ c \in {"a", "b", "e", "E"}
is_IdentifierStart(c) == c \in {"$", "_"} \/ is_Letter(c)

HexLetters == <<"a", "b", "c", "d", "e", "f">>

HexValue(c) ==
    IF is_UnicodeDigit(c) THEN (CHOOSE i \in DOMAIN Digits : Digits[i] = c) - 1
    ELSE IF c = "E" THEN 14
    ELSE (CHOOSE i \in DOMAIN HexLetters : HexLetters[i] = c) + 9

\* 7.7, lookahead /
DivPunctuator(input, pos) ==
    IF ~ATEOF(input, pos + 1) /\ input[pos + 1] = "="
    THEN Scanned("tDIVEQ", pos + 2, pos)
    ELSE Scanned("tDIV", pos + 1, pos)

\* the loop of CommentDiv over the text of a /* comment
RECURSIVE CommentBody(_, _, _, _, _, _)
CommentBody(input, start, pos, starprev, contains_newline, lines) ==
    IF ATEOF(input, pos) THEN [SYNTAX_ERROR(pos) EXCEPT !.lines = lines]
    ELSE IF starprev /\ input[pos] = "/"
    THEN [Scanned(IF contains_newline THEN "tLINETERMINATOR" ELSE "tCOMMENT", pos + 1, start)
            EXCEPT !.lines = lines]
    ELSE CommentBody(input, start, pos + 1, input[pos] = "*",
                     contains_newline \/ is_LineTerminator(input[pos]),
                     IF is_LineTerminator(input[pos]) THEN lines + 1 ELSE lines)

\* the loop of CommentDiv over the text of a // comment, and of SGMLComment
RECURSIVE LineComment(_, _, _)
LineComment(input, start, pos) ==
    IF ATEOF(input, pos) THEN Scanned("tEND", pos, pos)
    ELSE IF is_LineTerminator(input[pos]) THEN Scanned("tLINETERMINATOR", pos + 1, start)
    ELSE LineComment(input, start, pos + 1)

\* a /* comment is a tCOMMENT whether it holds a line terminator or not
CommentDiv_nonewline(input, pos) ==
    IF ~ATEOF(input, pos + 1) /\ input[pos + 1] = "*"
    THEN Let(CommentBody(input, pos, pos + 2, FALSE, FALSE, 0), LAMBDA r :
         IF r.err THEN r ELSE [r EXCEPT !.token = "tCOMMENT"])
    ELSE IF ~ATEOF(input, pos + 1) /\ input[pos + 1] = "/"
    THEN LineComment(input, pos, pos)
    ELSE DivPunctuator(input, pos)

\* 7.4, lookahead /
CommentDiv(input, pos) ==
    IF ~ATEOF(input, pos + 1) /\ input[pos + 1] = "*"
    THEN CommentBody(input, pos, pos + 2, FALSE, FALSE, 0)
    ELSE IF ~ATEOF(input, pos + 1) /\ input[pos + 1] = "/"
    THEN LineComment(input, pos, pos)
    ELSE DivPunctuator(input, pos)

\* lookahead <!--
SGMLComment(input, pos) == LineComment(input, pos, pos)

\* 7.6
is_IdentifierPart(c) == is_IdentifierStart(c) \/ is_UnicodeDigit(c)

\* the do-while loop of Token over an identifier
RECURSIVE Identifier(_, _, _)
Identifier(input, start, pos) ==
    IF ~ATEOF(input, pos) /\ is_IdentifierPart(input[pos])
    THEN Identifier(input, start, pos + 1)
    ELSE [Scanned("tIDENT", pos, start) EXCEPT !.value = String(Text(input, start, pos - 1))]

\* the position after the decimal digits, the hexadecimal digits at pos
RECURSIVE SkipDigits(_, _)
SkipDigits(input, pos) ==
    IF ~ATEOF(input, pos) /\ is_UnicodeDigit(input[pos]) THEN SkipDigits(input, pos + 1) ELSE pos
RECURSIVE SkipHexDigits(_, _)
SkipHexDigits(input, pos) ==
    IF ~ATEOF(input, pos) /\ is_HexDigit(input[pos]) THEN SkipHexDigits(input, pos + 1) ELSE pos

\* the number the digits input[a..b] write in the base
RECURSIVE Radix(_, _, _, _)
Radix(input, a, b, base) ==
    IF a > b THEN 0 ELSE Radix(input, a, b - 1, base) * base + HexValue(input[b])

\* SEE_strtod on the text of a decimal literal: the integer for a string of
\* digits, and a number known by its text for the other forms
SEE_strtod(input, a, b) ==
    IF \A i \in a..b : is_UnicodeDigit(input[i])
    THEN Number(Radix(input, a, b, 10))
    ELSE [type |-> "number", nan |-> FALSE, text |-> Text(input, a, b)]

\* NumericLiteral from the label not_octal on: s holds input[start..pos-1]
DecimalLiteral(input, start, pos, seendigit) ==
    Let(IF ~ATEOF(input, pos) /\ input[pos] = "." THEN SkipDigits(input, pos + 1) ELSE pos,
        LAMBDA p2 :
    IF ~(seendigit \/ p2 > pos + 1) THEN Scanned(".", p2, start)
    ELSE IF ~ATEOF(input, p2) /\ input[p2] \in {"e", "E"}
    THEN Let(IF ~ATEOF(input, p2 + 1) /\ input[p2 + 1] \in {"-", "+"} THEN p2 + 2 ELSE p2 + 1,
             LAMBDA p3 :
         Let(SkipDigits(input, p3), LAMBDA p4 :
         IF p4 = p3 THEN SYNTAX_ERROR(p4)
         ELSE [Scanned("tNUMBER", p4, start) EXCEPT !.value = SEE_strtod(input, start, p4 - 1)]))
    ELSE [Scanned("tNUMBER", p2, start) EXCEPT !.value = SEE_strtod(input, start, p2 - 1)])

\* 7.8.3, lookahead . or a digit
NumericLiteral(input, pos, compat) ==
    IF input[pos] = "0" /\ ~ATEOF(input, pos + 1) /\ input[pos + 1] \in {"x", "X"}
    THEN IF ATEOF(input, pos + 2) \/ ~is_HexDigit(input[pos + 2])
         THEN SYNTAX_ERROR(pos + 2)
         ELSE Let(SkipHexDigits(input, pos + 2), LAMBDA p :
              IF ~ATEOF(input, p) /\ is_IdentifierStart(input[p])
              THEN SYNTAX_ERROR(p)
              ELSE [Scanned("tNUMBER", p, pos) EXCEPT
                        !.value = Number(Radix(input, pos + 2, p - 1, 16))])
    ELSE Let(SkipDigits(input, pos), LAMBDA p1 :
         IF /\ "EXT1" \in compat
            /\ p1 > pos
            /\ (ATEOF(input, p1) \/ input[p1] \notin {".", "e", "E"})
            /\ p1 - pos > 1
            /\ input[pos] = "0"
            /\ \A i \in (pos + 1)..(p1 - 1) : HexValue(input[i]) <= 7
            /\ ~(~ATEOF(input, p1) /\ is_IdentifierStart(input[p1]))
         THEN [Scanned("tNUMBER", p1, pos) EXCEPT
                    !.value = Number(Radix(input, pos + 1, p1 - 1, 8))]
         ELSE DecimalLiteral(input, pos, p1, p1 > pos))

\* 7.7: the operators of the inputs are * *= < ! - -- and, with the
\* compatibility flag SGMLCOM, the comment introducer <!--
Punctuator(input, pos, compat) ==
    IF ATEOF(input, pos) THEN Scanned("tEND", pos, pos)
    ELSE IF Len(input) >= pos + 3 /\ SubSeq(input, pos, pos + 3) = <<"<", "!", "-", "-">>
            /\ "SGMLCOM" \in compat
    THEN SGMLComment(input, pos)
    ELSE IF Len(input) >= pos + 1 /\ SubSeq(input, pos, pos + 1) = <<"*", "=">>
    THEN Scanned("tSTAREQ", pos + 2, pos)
    ELSE IF Len(input) >= pos + 1 /\ SubSeq(input, pos, pos + 1) = <<"-", "-">>
    THEN Scanned("tMINUSMINUS", pos + 2, pos)
    ELSE IF input[pos] \in {"*", "<", "!", "-"}
    THEN Scanned(input[pos], pos + 1, pos)
    ELSE SYNTAX_ERROR(pos)

\* 7.5
Token(input, pos, compat) ==
    IF ATEOF(input, pos) THEN Scanned("tEND", pos, pos)
    ELSE IF is_UnicodeDigit(input[pos]) \/ input[pos] = "." THEN NumericLiteral(input, pos, compat)
    ELSE IF is_IdentifierStart(input[pos]) THEN Identifier(input, pos, pos + 1)
    ELSE Punctuator(input, pos, compat)

RECURSIVE SkipWhiteSpace(_, _)
SkipWhiteSpace(input, pos) ==
    IF ~ATEOF(input, pos) /\ is_WhiteSpace(input[pos]) /\ ~is_LineTerminator(input[pos])
    THEN SkipWhiteSpace(input, pos + 1)
    ELSE pos

\* the scanner goal: tLINETERMINATOR, a token or tEND, never tCOMMENT
RECURSIVE lex0(_, _, _)
lex0(input, pos0, compat) ==
    Let(SkipWhiteSpace(input, pos0), LAMBDA pos :
    IF ATEOF(input, pos) THEN Scanned("tEND", pos, pos)
    ELSE IF is_LineTerminator(input[pos])
    THEN [Scanned("tLINETERMINATOR", pos + 1, pos) EXCEPT !.lines = 1]
    ELSE IF input[pos] = "/"
    THEN Let(CommentDiv(input, pos), LAMBDA ret :
         IF ~ret.err /\ ret.token = "tCOMMENT"
         THEN Let(lex0(input, ret.pos, compat), LAMBDA r : [r EXCEPT !.lines = @ + ret.lines])
         ELSE ret)
    ELSE IF is_UnicodeDigit(input[pos]) THEN NumericLiteral(input, pos, compat)
    ELSE IF input[pos] = "."
    THEN IF ~ATEOF(input, pos + 1) /\ is_UnicodeDigit(input[pos + 1])
         THEN NumericLiteral(input, pos, compat)
         ELSE Scanned(".", pos + 1, pos)
    ELSE Token(input, pos, compat))

\* the loop of SEE_lex_next: scan until lex0 gives something other than
\* tLINETERMINATOR; the result carries next_follows_nl
RECURSIVE lex_again(_, _, _, _)
lex_again(input, pos, compat, next_follows_nl) ==
    Let(lex0(input, pos, compat), LAMBDA r :
    IF r.err THEN [r EXCEPT !.token = "SyntaxError"] @@ [next_follows_nl |-> next_follows_nl]
    ELSE IF r.token = "tLINETERMINATOR"
    THEN Let(lex_again(input, r.pos, compat, TRUE), LAMBDA r2 : [r2 EXCEPT !.lines = @ + r.lines])
    ELSE r @@ [next_follows_nl |-> next_follows_nl \/ r.token = "tEND"])

\* the pieces the inputs are made of
Pieces == {<<"a">>, <<" ">>, <<"\n">>, <<"/">>, <<"/", "*">>, <<"*", "/">>, <<"/", "/">>}

RECURSIVE Concat(_)
Concat(pieces) == IF pieces = <<>> THEN <<>> ELSE Head(pieces) \o Concat(Tail(pieces))

Inputs == {Concat(ps) : ps \in UNION {[1..n -> Pieces] : n \in 0..MaxPieces}}

\* the inputs with comments of the three kinds
LinePieces ==
    {<<"a">>, <<"\n">>, <<"/", "*">>, <<"*", "/">>, <<"/", "/">>, <<"<", "!", "-", "-">>}
LineInputs == {Concat(ps) : ps \in UNION {[1..n -> LinePieces] : n \in 0..MaxPieces}}

\* the inputs with numeric literals
NumChars == {"0", "1", "8", "x", "a", "g", "e", "."}
NumInputs == UNION {[1..n -> NumChars] : n \in 1..MaxChars}

\* struct lex before SEE_lex_init; the observer field tokens records each
\* token put in lex->next with next_follows_nl, next_lineno and the value,
\* the position the scan began at and the position the token starts at
NoLexer ==
    [state |-> "none", input |-> <<>>, pos |-> 1, compat |-> {}, next |-> "none",
     next_follows_nl |-> FALSE, next_lineno |-> 1, value |-> Undefined, tokens |-> <<>>]

-----------------------------------------------------------------------------
(* The parser reading tokens, parse.c.  struct lex is seen here as the     *)
(* tokens SEE_lex_next delivers one after the other, each with lex->value, *)
(* lex->next_lineno and lex->next_follows_nl; the last one is tEND, and    *)
(* the lexer stays on it.  The arrays unget_tok, unget_val, unget_lin and  *)
(* unget_fnl are held as one array unget_buf of such tokens.  A parsing    *)
(* function returns the node and the parser state, or a SyntaxError.       *)

UNGET_MAX == 3

LexToken(token, value, lineno, follows_nl) ==
    [token |-> token, value |-> value, lineno |-> lineno, follows_nl |-> follows_nl]
Tk(token) == LexToken(token, Undefined, 1, FALSE)
Id(s) == LexToken("tIDENT", String(s), 1, FALSE)
tEND == LexToken("tEND", Undefined, 1, TRUE)

\* SEE_lex_next
lex_advance(lex) == [lex EXCEPT !.pos = IF @ < Len(lex.tokens) THEN @ + 1 ELSE @]
lex_token(lex) == lex.tokens[lex.pos]

\* parser_init with the lexer
parser_init_lex(tokens) ==
    parser_init @@
    [lex |-> [tokens |-> tokens, pos |-> 1], unget |-> 0, unget_end |-> 0,
     unget_buf |-> [i \in 0..(UNGET_MAX - 1) |-> Tk("none")],
     noin |-> FALSE, is_lhs |-> FALSE, funcdepth |-> 0]

\* NEXT, NEXT_VALUE, NEXT_LINENO and NEXT_FOLLOWS_NL read the fields of
\* NEXT_token
NEXT_token(p) == IF p.unget # p.unget_end THEN p.unget_buf[p.unget] ELSE lex_token(p.lex)
NEXT(p) == NEXT_token(p).token
NEXT_VALUE(p) == NEXT_token(p).value
NEXT_FOLLOWS_NL(p) == NEXT_token(p).follows_nl

\* SKIP that reads the lexer whether tokens are buffered or not
SKIP_nounget(p) == [p EXCEPT !.lex = lex_advance(@)]

SKIP(p) ==
    IF p.unget = p.unget_end
    THEN [p EXCEPT !.lex = lex_advance(@)]
    ELSE [p EXCEPT !.unget = (@ + 1) % UNGET_MAX]

\* the while loop of lookahead
RECURSIVE lookahead_fill(_, _)
lookahead_fill(p, n) ==
    IF (UNGET_MAX + p.unget_end - p.unget) % UNGET_MAX < n
    THEN lookahead_fill([p EXCEPT !.unget_buf[p.unget_end] = lex_token(p.lex),
                                  !.lex = lex_advance(@),
                                  !.unget_end = (@ + 1) % UNGET_MAX], n)
    ELSE p

\* the token that is n tokens ahead, and the parser after the call
lookahead(p, n) ==
    Let(lookahead_fill(p, n), LAMBDA q :
    [token |-> IF (q.unget + n) % UNGET_MAX = q.unget_end
               THEN lex_token(q.lex).token
               ELSE q.unget_buf[(q.unget + n) % UNGET_MAX].token,
     p |-> q])

Node(n, p) == [err |-> FALSE, n |-> n, p |-> p]
EXPECTED(p) == [err |-> TRUE, n |-> NoNode, p |-> p]
Then(o, F(_)) == Let(o, LAMBDA r : IF r.err THEN r ELSE F(r))

EXPECT(c, p) == IF NEXT(p) # c THEN EXPECTED(p) ELSE Node(NoNode, SKIP(p))

EXPECT_SEMICOLON(p) ==
    IF NEXT(p) = ";" THEN Node(NoNode, SKIP(p))
    ELSE IF NEXT(p) = "}" \/ NEXT_FOLLOWS_NL(p) THEN Node(NoNode, p)
    ELSE EXPECTED(p)

Binary(nc, a, b) == [nodeclass |-> nc, loc |-> 0, a |-> a, b |-> b]
MemberExpression_bracket(mexp, name) ==
    [nodeclass |-> "MemberExpression_bracket", loc |-> 0, mexp |-> mexp, name |-> name]
ArrayLiteral(length, first) ==
    [nodeclass |-> "ArrayLiteral", loc |-> 0, length |-> length, first |-> first]
IterationStatement_for(init, cond, incr, body) ==
    [nodeclass |-> "IterationStatement_for", loc |-> 0, init |-> init, cond |-> cond,
     incr |-> incr, body |-> body]
IterationStatement_forin(lhs, list, body) ==
    [nodeclass |-> "IterationStatement_forin", loc |-> 0, lhs |-> lhs, list |-> list,
     body |-> body]

RECURSIVE PrimaryExpression_parse(_)
RECURSIVE ArrayLiteral_loop(_, _, _)
RECURSIVE Arguments_loop(_, _)
RECURSIVE LeftHandSideExpression_loop(_, _)
RECURSIVE RelationalExpression_parse(_)
RECURSIVE RelationalExpression_loop(_, _)
RECURSIVE EqualityExpression_parse(_)
RECURSIVE EqualityExpression_loop(_, _)
RECURSIVE Expression_parse(_)
RECURSIVE FunctionExpression_parse(_)
RECURSIVE SourceElements_loop(_, _)
RECURSIVE Stmt_parse(_)

\* the while loop of ArrayLiteral_parse
ArrayLiteral_loop(p, index, first) ==
    IF NEXT(p) = "]"
    THEN Then(EXPECT("]", p), LAMBDA e : Node(ArrayLiteral(index, first), e.p))
    ELSE IF NEXT(p) = "," THEN ArrayLiteral_loop(SKIP(p), index + 1, first)
    ELSE Then(EqualityExpression_parse(p), LAMBDA r :
         Let(Append(first, [index |-> index, expr |-> r.n]), LAMBDA elp :
         IF NEXT(r.p) # "]"
         THEN Then(EXPECT(",", r.p), LAMBDA e : ArrayLiteral_loop(e.p, index + 1, elp))
         ELSE ArrayLiteral_loop(r.p, index + 1, elp)))

ArrayLiteral_parse(p) == Then(EXPECT("[", p), LAMBDA e : ArrayLiteral_loop(e.p, 0, <<>>))

\* 11.1; Literal_parse throws for a token that begins no literal, and the
\* inputs hold no literal
PrimaryExpression_parse(p) ==
    IF NEXT(p) = "tIDENT"
    THEN Node(PrimaryExpression_ident(NEXT_VALUE(p).string), SKIP(p))
    ELSE IF NEXT(p) = "[" THEN ArrayLiteral_parse(p)
    ELSE IF NEXT(p) = "("
    THEN Then(Expression_parse(SKIP(p)), LAMBDA r :
         Then(EXPECT(")", r.p), LAMBDA e : Node(r.n, e.p)))
    ELSE EXPECTED(p)

\* the while loop of Arguments_parse
Arguments_loop(p, first) ==
    IF NEXT(p) = ")" THEN Then(EXPECT(")", p), LAMBDA e : Node(first, e.p))
    ELSE Then(EqualityExpression_parse(p), LAMBDA r :
         IF NEXT(r.p) # ")"
         THEN Then(EXPECT(",", r.p), LAMBDA e : Arguments_loop(e.p, Append(first, r.n)))
         ELSE Arguments_loop(r.p, Append(first, r.n)))

Arguments_parse(p) == Then(EXPECT("(", p), LAMBDA e : Arguments_loop(e.p, <<>>))

\* the for loop of LeftHandSideExpression_parse; the inputs hold no '.'
LeftHandSideExpression_loop(n, p) ==
    IF NEXT(p) = "["
    THEN Then(Expression_parse(SKIP(p)), LAMBDA r :
         Then(EXPECT("]", r.p), LAMBDA e :
         LeftHandSideExpression_loop(MemberExpression_bracket(n, r.n), e.p)))
    ELSE IF NEXT(p) = "("
    THEN Then(Arguments_parse(p), LAMBDA r :
         LeftHandSideExpression_loop(CallExpression(n, r.n), r.p))
    ELSE Node(n, [p EXCEPT !.is_lhs = TRUE])

\* 11.2; the inputs hold no new
LeftHandSideExpression_parse(p) ==
    Then(IF NEXT(p) = "tFUNCTION" THEN FunctionExpression_parse(p) ELSE PrimaryExpression_parse(p),
         LAMBDA r : LeftHandSideExpression_loop(r.n, r.p))

\* 11.3 to 11.7: PostfixExpression, UnaryExpression, MultiplicativeExpression,
\* AdditiveExpression and ShiftExpression give the LeftHandSideExpression
\* back when the next token is none of their operators, and the inputs hold
\* none
ShiftExpression_parse(p) == LeftHandSideExpression_parse(p)

\* the switch of RelationalExpression_parse: "none" for return n
RelationalExpression_nodeclass(token, noin) ==
    CASE token = "<" -> "RelationalExpression_lt"
      [] token = ">" -> "RelationalExpression_gt"
      [] token = "tLE" -> "RelationalExpression_le"
      [] token = "tGE" -> "RelationalExpression_ge"
      [] token = "tINSTANCEOF" -> "RelationalExpression_instanceof"
      [] token = "tIN" /\ ~noin -> "RelationalExpression_in"
      [] OTHER -> "none"

\* the for loop of RelationalExpression_parse
RelationalExpression_loop(n, p) ==
    Let(RelationalExpression_nodeclass(NEXT(p), p.noin), LAMBDA nc :
    IF nc = "none" THEN Node(n, p)
    ELSE Then(RelationalExpression_parse(SKIP(p)), LAMBDA r :
         RelationalExpression_loop(Binary(nc, n, r.n), [r.p EXCEPT !.is_lhs = FALSE])))

\* 11.8
RelationalExpression_parse(p) ==
    Then(ShiftExpression_parse(p), LAMBDA r : RelationalExpression_loop(r.n, r.p))

\* the switch of EqualityExpression_parse: "none" for return n
EqualityExpression_nodeclass(token) ==
    CASE token = "tEQ" -> "EqualityExpression_eq"
      [] token = "tNE" -> "EqualityExpression_ne"
      [] token = "tSEQ" -> "EqualityExpression_seq"
      [] token = "tSNE" -> "EqualityExpression_sne"
      [] OTHER -> "none"

\* the for loop of EqualityExpression_parse
EqualityExpression_loop(n, p) ==
    Let(EqualityExpression_nodeclass(NEXT(p)), LAMBDA nc :
    IF nc = "none" THEN Node(n, p)
    ELSE Then(EqualityExpression_parse(SKIP(p)), LAMBDA r :
         EqualityExpression_loop(Binary(nc, n, r.n), [r.p EXCEPT !.is_lhs = FALSE])))

\* 11.9.  11.10 to 11.13: the bitwise, the logical, the conditional and the
\* assignment expressions give the EqualityExpression back when the next
\* token is none of their operators, and the inputs hold none; so
\* AssignmentExpression is EqualityExpression here
EqualityExpression_parse(p) ==
    Then(RelationalExpression_parse(p), LAMBDA r : EqualityExpression_loop(r.n, r.p))

\* 11.14
Expression_parse(p) ==
    Then(EqualityExpression_parse(p), LAMBDA r :
    IF NEXT(r.p) # "," THEN r
    ELSE Then(Expression_parse(SKIP(r.p)), LAMBDA b :
         Node(Binary("Expression_comma", r.n, b.n), [b.p EXCEPT !.is_lhs = FALSE])))

\* 13; the inputs hold functions without parameters
FormalParameterList_parse(p) == Node(<<>>, p)

\* 14
FunctionBody_parse(p) ==
    Then(SourceElements_loop(p, <<>>), LAMBDA r : Node(FunctionBody(r.n), r.p))

\* 13
FunctionExpression_parse(p) ==
    Then(EXPECT("tFUNCTION", [p EXCEPT !.noin = FALSE, !.is_lhs = FALSE]), LAMBDA e1 :
    Let(IF NEXT(e1.p) = "tIDENT" THEN SKIP(e1.p) ELSE e1.p, LAMBDA p2 :
    Then(EXPECT("(", p2), LAMBDA e2 :
    Then(FormalParameterList_parse(e2.p), LAMBDA formal :
    Then(EXPECT(")", formal.p), LAMBDA e3 :
    Then(EXPECT("{", e3.p), LAMBDA e4 :
    Then(FunctionBody_parse([e4.p EXCEPT !.funcdepth = @ + 1]), LAMBDA body :
    Then(EXPECT("}", [body.p EXCEPT !.funcdepth = @ - 1]), LAMBDA e5 :
    Node(FunctionExpression(formal.n, body.n),
         [e5.p EXCEPT !.noin = p.noin, !.is_lhs = p.is_lhs])))))))))

\* 12.4 ExpressionStatement_parse; target_push and target_pop belong to the
\* statements of the label unit
ExprStatement_parse(p) ==
    Then(Expression_parse(p), LAMBDA r :
    Then(EXPECT_SEMICOLON(r.p), LAMBDA e : Node(ExpressionStatement(0, r.n), e.p)))

\* if (NEXT != stop) PARSE(Expression) else NULL
OptionalExpression(p, stop) == IF NEXT(p) # stop THEN Expression_parse(p) ELSE Node(NoNode, p)

\* IterationStatement_parse from the line fn = NEW_NODE(..for..) on
For_rest(init, p) ==
    Then(EXPECT(";", p), LAMBDA e1 :
    Then(OptionalExpression(e1.p, ";"), LAMBDA cond :
    Then(EXPECT(";", cond.p), LAMBDA e2 :
    Then(OptionalExpression(e2.p, ")"), LAMBDA incr :
    Then(EXPECT(")", incr.p), LAMBDA e3 :
    Then(Stmt_parse(e3.p), LAMBDA body :
    Node(IterationStatement_for(init, cond.n, incr.n, body.n), body.p)))))))

\* IterationStatement_parse, case tFOR; the inputs hold no var
For_parse(p) ==
    Then(EXPECT("(", SKIP(p)), LAMBDA e1 :
    IF NEXT(e1.p) # ";"
    THEN Then(Expression_parse([e1.p EXCEPT !.noin = TRUE]), LAMBDA r :
         Let([r.p EXCEPT !.noin = FALSE], LAMBDA q :
         IF NEXT(q) = "tIN" /\ q.is_lhs
         THEN Then(Expression_parse(SKIP(q)), LAMBDA list :
              Then(EXPECT(")", list.p), LAMBDA e2 :
              Then(Stmt_parse(e2.p), LAMBDA body :
              Node(IterationStatement_forin(r.n, list.n, body.n), body.p))))
         ELSE For_rest(r.n, q)))
    ELSE For_rest(NoNode, e1.p))

\* 12 Statement_parse; the inputs hold no ':', so that after lookahead no
\* statement is a LabelledStatement
Stmt_parse(p) ==
    IF NEXT(p) = ";" THEN Then(EXPECT_SEMICOLON(p), LAMBDA e : Node(EmptyStatement(0), e.p))
    ELSE IF NEXT(p) = "tFOR" THEN For_parse(p)
    ELSE IF NEXT(p) = "tIDENT" THEN ExprStatement_parse(lookahead(p, 1).p)
    ELSE ExprStatement_parse(p)

\* the for loop of SourceElements_parse; the inputs hold no function
\* declaration
SourceElements_loop(p, statements) ==
    IF NEXT(p) \in {"tIDENT", "(", "[", ";", "tFOR"}
    THEN Then(Stmt_parse(p), LAMBDA r : SourceElements_loop(r.p, Append(statements, r.n)))
    ELSE Node(SourceElements(statements, <<>>, <<>>), p)

\* 14 Program_parse
Program_parse_tokens(p) ==
    Then(FunctionBody_parse(p), LAMBDA body :
    IF NEXT(body.p) # "tEND" THEN EXPECTED(body.p) ELSE body)

\* the programs a op1 b op2 c
RelationalOperators == {"<", ">", "tLE", "tGE", "tINSTANCEOF", "tIN"}
EqualityOperators == {"tEQ", "tNE", "tSEQ", "tSNE"}
Chain(op1, op2) == <<Id("a"), Tk(op1), Id("b"), Tk(op2), Id("c"), Tk(";"), tEND>>
ChainPrograms ==
    {Chain(op1, op2) : op1, op2 \in RelationalOperators \cup EqualityOperators}

\* the programs for (init;;); and for (a in b);
AInB == <<Id("a"), Tk("tIN"), Id("b")>>
ForInit(init) ==
    <<Tk("tFOR"), Tk("(")>> \o init \o <<Tk(";"), Tk(";"), Tk(")"), Tk(";"), tEND>>
Parenthesised == <<Tk("(")>> \o AInB \o <<Tk(")")>>
Bracketed == <<Tk("[")>> \o AInB \o <<Tk("]")>>
Indexed == <<Id("c"), Tk("[")>> \o AInB \o <<Tk("]")>>
ArgumentList == <<Id("c"), Tk("(")>> \o AInB \o <<Tk(")")>>
InFunctionBody ==
    <<Tk("tFUNCTION"), Tk("("), Tk(")"), Tk("{")>> \o AInB \o <<Tk("}")>>
InSubExpression == {Parenthesised, Bracketed, Indexed, ArgumentList, InFunctionBody}
ForIn == <<Tk("tFOR"), Tk("(")>> \o AInB \o <<Tk(")"), Tk(";"), tEND>>
ForPrograms ==
    {ForInit(init) : init \in InSubExpression \cup {AInB, <<Id("a")>>, <<>>}} \cup {ForIn}

\* the longest token stream, without its tEND
MaxTokens == 4

\* the token streams given to NEXT, SKIP and lookahead: the i-th token has
\* the value i, is on line i or i + 1, and every second one follows a newline
Stream(toks) ==
    [i \in 1..Len(toks) |-> LexToken(toks[i], Number(i), i + (i \div 2), i % 2 = 0)]
        \o <<LexToken("tEND", Number(0), Len(toks) + 2, TRUE)>>
Streams == {Stream(toks) : toks \in UNION {[1..n -> {"tIDENT", ":"}] : n \in 1..MaxTokens}}

\* struct parser before SEE_parse_program, with the tokens of the program
NoTokens == [state |-> "none", tokens |-> <<tEND>>, err |-> FALSE, n |-> NoNode]

-----------------------------------------------------------------------------
(* SEE_string_fputs, string.c: a string of 16-bit code units written to a  *)
(* FILE in UTF-8.  The operators of C on unsigned 16-bit values are        *)
(* computed with division and remainder.                                    *)

\* the longest string, in code units
MaxUnits == 3

\* ch >> n, ch << n, ch & (2^n - 1), and ch with its low n bits cleared
shr(ch, n) == ch \div 2^n
shl(ch, n) == ch * 2^n
low(ch, n) == ch % 2^n
high(ch, n) == ch - (ch % 2^n)

\* the body of the for loop, from index i (counted from 1) on; f holds
\* the bytes written so far
RECURSIVE fputs_loop(_, _, _)
fputs_loop(s, i, f) ==
    IF i > Len(s) THEN [thrown |-> FALSE, f |-> f]
    ELSE IF high(s[i], 7) = 0
    THEN fputs_loop(s, i + 1, f \o <<low(s[i], 7)>>)
    ELSE IF high(s[i], 11) = 0
    THEN fputs_loop(s, i + 1, f \o <<192 + low(shr(s[i], 6), 5), 128 + low(s[i], 6)>>)
    ELSE IF high(s[i], 10) # 55296
    THEN fputs_loop(s, i + 1, f \o <<224 + low(shr(s[i], 12), 4),
                                      128 + low(shr(s[i], 6), 6),
                                      128 + low(s[i], 6)>>)
    ELSE IF i = Len(s) THEN [thrown |-> TRUE, f |-> f]
    ELSE IF high(s[i + 1], 10) # 56320 THEN [thrown |-> TRUE, f |-> f]
    ELSE Let(low(s[i], 10) + 64, LAMBDA ch :
         fputs_loop(s, i + 2, f \o <<240 + low(shr(ch, 8), 3),
                                      128 + low(shr(ch, 2), 6),
                                      128 + shl(low(ch, 2), 4) + shr(low(high(s[i + 1], 6), 10), 6),
                                      128 + low(s[i + 1], 6)>>))

\* the code units of the strings: A, e-acute, the euro sign, the first and
\* the last high surrogate, the first and the last low surrogate
Units == {65, 233, 8364, 55296, 56319, 56320, 57343}
Strings == UNION {[1..n -> Units] : n \in 0..MaxUnits}

NoFile == [state |-> "none", s |-> <<>>, f |-> <<>>]

-----------------------------------------------------------------------------
(* The initial heap and the contexts a run starts in *)

\* function f() { return "r" }  and  function g() { throw "t" }
Function_f == [name |-> "f", params |-> <<>>, body |-> ReturnStatement(7, Literal(String("r")))]
Function_g == [name |-> "g", params |-> <<>>, body |-> ThrowStatement(7, Literal(String("t")))]

Activation0 == 6

InitialHeap ==
    << NativeObject("Global",
            ("a" :> String("va")) @@ ("eval" :> Object(Global_eval)) @@ ("f" :> Object(3))
                @@ ("g" :> Object(4)) @@ ("o" :> Object(5))),
       FunctionInstance(NoFunction, <<>>),
       FunctionInstance(Function_f, <<Global>>),
       FunctionInstance(Function_g, <<Global>>),
       NativeObject("Object", ("m" :> Object(3)) @@ ("a" :> String("oa"))),
       NativeObject("Activation", ("h" :> Object(3))) >>

\* global code
GlobalContext ==
    [activation |-> NULL, variable |-> Global, thisobj |-> Global, scope |-> <<Global>>]

\* the body of a function called with h = f, whose activation is object 6
FunctionContext ==
    [activation |-> Activation0, variable |-> Activation0, thisobj |-> Global,
     scope |-> <<Activation0, Global>>]

InitialInterp(undefdef) ==
    [traceback |-> <<>>, try_context |-> 1, heap |-> InitialHeap,
     compat_undefdef |-> undefdef, evals |-> <<>>, frames |-> <<>>, throws |-> <<>>, calls |-> <<>>,
     order |-> <<>>]

NoResult == [thrown |-> FALSE, res |-> NullValue]

\* Source elements as SourceElements_parse meets them: a function
\* declaration (its body a sequence of source elements), a var statement,
\* another statement
SrcFunctionDeclaration(name, params, body) ==
    [kind |-> "tFUNCTION", name |-> name, params |-> params, body |-> body]
SrcVariableStatement(l, name, init) ==
    [kind |-> "tVAR", loc |-> l, name |-> name, init |-> init]
SrcStatement(n) == [kind |-> "Statement", node |-> n]

\* SourceElements_parse: function declarations go to the list functions,
\* statements to the list statements, and every declared variable of the
\* statements to the list vars; a nested function body has lists of its own
RECURSIVE SourceElements_parse(_)
SourceElements_parse(elements) ==
    IF elements = <<>> THEN SourceElements(<<>>, <<>>, <<>>) ELSE
    Let(Head(elements), LAMBDA e :
    Let(SourceElements_parse(Tail(elements)), LAMBDA se :
    CASE e.kind = "tFUNCTION" ->
            [se EXCEPT !.functions =
                <<FunctionDeclaration(e.name, e.params,
                        FunctionBody(SourceElements_parse(e.body)))>> \o @]
      [] e.kind = "tVAR" ->
            [se EXCEPT !.statements =
                        <<VariableStatement(e.loc, VariableDeclaration(e.name, e.init))>> \o @,
                       !.vars = <<e.name>> \o @]
      [] e.kind = "Statement" ->
            [se EXCEPT !.statements = <<e.node>> \o @]))

\* Program_parse and FunctionBody_parse
Program_body(elements) == FunctionBody(SourceElements_parse(elements))

\* the elements of the programs: declarations of a (a property of the
\* global object), h (a property of the activation object), n (a property
\* of neither), and an assignment to n
ProgramElements ==
    {SrcFunctionDeclaration(name, <<>>, <<SrcStatement(ReturnStatement(7, Literal(String("r"))))>>) :
            name \in {"a", "n"}}
    \cup {SrcVariableStatement(1, name, NoNode) : name \in {"a", "h", "n"}}
    \cup {SrcVariableStatement(2, "n", Literal(String("i"))),
          SrcStatement(ExpressionStatement(3,
            AssignmentExpression("AssignmentExpression_simple",
                PrimaryExpression_ident("n"), Literal(String("s")))))}

\* the elements of the body of  function k(p) { ... }
BodyElements ==
    {SrcFunctionDeclaration(name, <<>>, <<>>) : name \in {"p", "q"}}
    \cup {SrcVariableStatement(4, name, NoNode) : name \in {"p", "q"}}
    \cup {SrcVariableStatement(5, "q", Literal(String("i")))}

\* function k(p) { body }  k("arg");  and  k();
CallPrograms ==
    {<<SrcFunctionDeclaration("k", <<"p">>, body),
       SrcStatement(ExpressionStatement(6,
            CallExpression(PrimaryExpression_ident("k"), args)))>> :
        body \in {<<b>> : b \in BodyElements} \cup (BodyElements \X BodyElements),
        args \in {<<>>, <<Literal(String("arg"))>>}}

FprocPrograms ==
    {Program_body(elements) :
        elements \in {<<e>> : e \in ProgramElements}
                        \cup (ProgramElements \X ProgramElements) \cup CallPrograms}

\* the body of  with (o) { ... }  in global code
WithContext ==
    [activation |-> NULL, variable |-> Global, thisobj |-> Global, scope |-> <<5, Global>>]

\* the heap with the global variables x = 2 and y = "3"
AssignInterp(undefdef) ==
    [InitialInterp(undefdef) EXCEPT
        !.heap[Global].props = ("x" :> Number(2)) @@ ("y" :> String("3")) @@ @]

\* the left-hand sides: x, y, a (a property of o and of the global object),
\* an undeclared name, o.x (a property o does not have)
AssignTargets ==
    {PrimaryExpression_ident("x"), PrimaryExpression_ident("y"),
     PrimaryExpression_ident("a"), PrimaryExpression_ident("undeclared"),
     MemberExpression_dot(PrimaryExpression_ident("o"), "x")}

\* the right-hand sides: literals, x, and the assignments  lhs = 3
AssignOperands ==
    {Literal(Number(3)), Literal(String("s")), PrimaryExpression_ident("x")}
        \cup {AssignmentExpression("AssignmentExpression_simple", l, Literal(Number(3))) :
                    l \in AssignTargets}

AssignClasses ==
    {"AssignmentExpression_muleq", "AssignmentExpression_addeq",
     "AssignmentExpression_urshifteq"}

\* the statements  lhs op= rhs;
AssignPrograms ==
    {ExpressionStatement(1, AssignmentExpression(c, l, e)) :
        c \in AssignClasses, l \in AssignTargets, e \in AssignOperands}

-----------------------------------------------------------------------------
(* SEE_parse_args and SEE_call_args, cfunction.c.  The format is a sequence *)
(* of characters.  The variadic arguments of SEE_parse_args are pointers    *)
(* to the places of the results: the observer field out records, for each   *)
(* format character that takes an argument, the index i the argument was    *)
(* fetched at, the number of the variadic argument written through (-1 for  *)
(* none) and the value written.  The variadic arguments of SEE_call_args    *)
(* are C values: 0 is a NULL pointer.                                       *)

\* the longest format and the longest argument list
MaxFormat == 3
MaxArgv == 2

\* nothing was written
Unset == [type |-> "unset"]

Converted(c, i, slot, val) == [f |-> c, i |-> i, slot |-> slot, val |-> val]

\* the conversion of the characters s, n and v
Convert(c, arg) ==
    CASE c = "s" -> SEE_ToString(arg)
      [] c = "n" -> SEE_ToNumber(arg)
      [] c = "v" -> arg

\* the for loop of SEE_parse_args from the format character f on (counted
\* from 1); i and the variadic argument ap are counted from 0.  The inputs
\* hold none of the characters A a Z z b i u h p, which step i as s does.
RECURSIVE parse_args_loop(_, _, _, _, _, _, _)
parse_args_loop(fmt, f, argv, i, init, ap, out) ==
    IF f > Len(fmt) \/ (~init /\ i >= Len(argv)) THEN [state |-> "returned", out |-> out]
    ELSE
    Let(IF i < Len(argv) THEN argv[i + 1] ELSE Undefined, LAMBDA arg :
    Let(fmt[f], LAMBDA c :
    IF c = " " THEN parse_args_loop(fmt, f + 1, argv, i, init, ap, out)
    ELSE IF c \in {"s", "n", "v"}
    THEN IF arg.type = "undefined" /\ ~init
         THEN parse_args_loop(fmt, f + 1, argv, i + 1, init, ap,
                              Append(out, Converted(c, i, -1, Unset)))
         ELSE parse_args_loop(fmt, f + 1, argv, i + 1, init, ap + 1,
                              Append(out, Converted(c, i, ap, Convert(c, arg))))
    ELSE IF c = "O" /\ arg.type \in {"undefined", "null"}
    THEN IF ~init /\ arg.type = "undefined"
         THEN parse_args_loop(fmt, f + 1, argv, i + 1, init, ap,
                              Append(out, Converted(c, i, -1, Unset)))
         ELSE parse_args_loop(fmt, f + 1, argv, i + 1, init, ap + 1,
                              Append(out, Converted(c, i, ap, NullValue)))
    ELSE IF c \in {"O", "o"}
    THEN IF arg.type = "undefined" /\ ~init
         THEN parse_args_loop(fmt, f + 1, argv, i + 1, init, ap,
                              Append(out, Converted(c, i, -1, Unset)))
         ELSE Let(SEE_ToObject(arg, GlobalContext, InitialInterp(FALSE)), LAMBDA val :
              IF val.thrown THEN [state |-> "TypeError", out |-> out]
              ELSE parse_args_loop(fmt, f + 1, argv, i + 2, init, ap + 1,
                                   Append(out, Converted(c, i, ap, val.res))))
    ELSE IF c = "|" THEN parse_args_loop(fmt, f + 1, argv, i, FALSE, ap, out)
    ELSE IF c = "x"
    THEN parse_args_loop(fmt, f + 1, argv, i + 1, init, ap, Append(out, Converted(c, i, -1, Unset)))
    ELSE IF c = "."
    THEN IF i < Len(argv) THEN [state |-> "TypeError", out |-> out]
         ELSE parse_args_loop(fmt, f + 1, argv, i, init, ap, out)
    ELSE [state |-> "SEE_ABORT", out |-> out]))

\* the characters that take an argument, in the first loop of SEE_call_args
CallChars ==
    {"s", "A", "a", "Z", "z", "b", "i", "u", "h", "n", "O", "o", "p", "v", "x", "*"}

\* the first loop of SEE_call_args, which counts the arguments: the case
\* of the argument characters ends with argc++ and no break, and control
\* goes on into the default case
RECURSIVE call_args_count(_, _, _)
call_args_count(fmt, f, argc) ==
    IF f > Len(fmt) THEN [abort |-> FALSE, argc |-> argc]
    ELSE IF fmt[f] = " " THEN call_args_count(fmt, f + 1, argc)
    ELSE IF fmt[f] \in CallChars THEN [abort |-> TRUE, argc |-> argc + 1]
    ELSE [abort |-> TRUE, argc |-> argc]

\* the second loop of SEE_call_args, which builds argv from the variadic
\* arguments; it has no default case.  The inputs hold none of the
\* characters A a Z z b i u h l p v *.
RECURSIVE call_args_build(_, _, _, _)
call_args_build(fmt, f, ap, argv) ==
    IF f > Len(fmt) THEN [abort |-> FALSE, argv |-> argv]
    ELSE
    Let(fmt[f], LAMBDA c :
    IF c = "s"
    THEN call_args_build(fmt, f + 1, Tail(ap),
            Append(argv, IF Head(ap) # NULL THEN [type |-> "string", string |-> Head(ap)]
                         ELSE Undefined))
    ELSE IF c = "n" THEN call_args_build(fmt, f + 1, Tail(ap), Append(argv, Number(Head(ap))))
    ELSE IF c = "O"
    THEN call_args_build(fmt, f + 1, Tail(ap),
            Append(argv, IF Head(ap) # NULL THEN Object(Head(ap)) ELSE Undefined))
    ELSE IF c = "o"
    THEN IF Head(ap) = NULL THEN [abort |-> TRUE, argv |-> argv]
         ELSE call_args_build(fmt, f + 1, Tail(ap), Append(argv, Object(Head(ap))))
    ELSE IF c = "x" THEN call_args_build(fmt, f + 1, ap, Append(argv, Undefined))
    ELSE call_args_build(fmt, f + 1, ap, argv))

\* SEE_call_args up to SEE_OBJECT_CALL: the argument list the callee is
\* given, or an abort
call_args(fmt, ap) ==
    Let(call_args_count(fmt, 1, 0), LAMBDA n :
    IF n.abort THEN [abort |-> TRUE, argv |-> <<>>]
    ELSE Let(call_args_build(fmt, 1, ap, <<>>), LAMBDA b :
         IF b.abort \/ Len(b.argv) # n.argc THEN [abort |-> TRUE, argv |-> <<>>] ELSE b))

\* the formats, the argument lists and the variadic arguments
FormatChars == {" ", "s", "n", "v", "o", "O", "x", "|", ".", "?"}
Formats == UNION {[1..n -> FormatChars] : n \in 0..MaxFormat}
ArgvLists == UNION {[1..n -> {Undefined, Number(7), String("5")}] : n \in 0..MaxArgv}
VarArgs == [1..MaxFormat -> {NULL, 5}]

\* the observer field calls records argc and argv of each SEE_OBJECT_CALL
NoArgs ==
    [state |-> "none", fmt |-> <<>>, argv |-> <<>>, ap |-> <<>>, out |-> <<>>, calls |-> <<>>]

Init ==
    /\ engine \in {"tree", "vm"}
    /\ pc = IF engine = "tree" THEN "ready" ELSE "exec"
    /\ prog \in IF engine = "tree" THEN Programs ELSE {NoNode}
    /\ context \in {GlobalContext, FunctionContext}
    /\ interp \in {InitialInterp(u) : u \in BOOLEAN}
    /\ result = NoResult
    /\ stack = <<>>
    /\ blocks = <<>>
    /\ scope = context.scope
    /\ creg = Undefined
    /\ steps = 0
    /\ parser = NoParser
    /\ forin = NoForin
    /\ lexer = NoLexer
    /\ file = NoFile
    /\ cfargs = NoArgs

\* the evaluators and the machine are not running
Idle ==
    /\ engine = "none"
    /\ pc = "done"
    /\ prog = NoNode
    /\ context = GlobalContext
    /\ interp = InitialInterp(FALSE)
    /\ result = NoResult
    /\ stack = <<>>
    /\ blocks = <<>>
    /\ scope = <<>>
    /\ creg = Undefined
    /\ steps = 0

\* SEE_eval_functionbody: evaluate the program in the context
SEE_eval_functionbody ==
    /\ engine = "tree"
    /\ pc = "ready"
    /\ \E r \in {EVAL(prog, context, interp)} :
        /\ result' = [thrown |-> r.thrown, res |-> r.res]
        /\ context' = r.ctx
        /\ interp' = r.st
    /\ pc' = "done"
    /\ UNCHANGED <<subvars, engine, prog, stack, blocks, scope, creg, steps>>

\* The evaluation of one compound assignment statement
InitAssign ==
    /\ engine = "tree"
    /\ pc = "ready"
    /\ prog \in AssignPrograms
    /\ context \in {GlobalContext, WithContext}
    /\ interp \in {AssignInterp(u) : u \in BOOLEAN}
    /\ result = NoResult
    /\ stack = <<>>
    /\ blocks = <<>>
    /\ scope = context.scope
    /\ creg = Undefined
    /\ steps = 0
    /\ parser = NoParser
    /\ forin = NoForin
    /\ lexer = NoLexer
    /\ file = NoFile
    /\ cfargs = NoArgs

SpecAssign == InitAssign /\ [][SEE_eval_functionbody]_vars

\* The evaluation of one program, as global code or as the body of a
\* function
InitFproc ==
    /\ engine = "tree"
    /\ pc = "ready"
    /\ prog \in FprocPrograms
    /\ context \in {GlobalContext, FunctionContext}
    /\ interp \in {InitialInterp(u) : u \in BOOLEAN}
    /\ result = NoResult
    /\ stack = <<>>
    /\ blocks = <<>>
    /\ scope = context.scope
    /\ creg = Undefined
    /\ steps = 0
    /\ parser = NoParser
    /\ forin = NoForin
    /\ lexer = NoLexer
    /\ file = NoFile
    /\ cfargs = NoArgs

SpecFproc == InitFproc /\ [][SEE_eval_functionbody]_vars

-----------------------------------------------------------------------------
(* The bytecode machine, code1_exec of code1.c.  One action per            *)
(* instruction; the instruction stream is any sequence of instructions     *)
(* that respects the machine's assertions on the operand stack (maxstack), *)
(* the block stack (maxblock) and the operand types.                       *)

\* co->literal, the literal table of the code object: identifier names
literal == <<String("undeclared"), String("h"), String("g"), String("o")>>

\* code1.c GetValue: a Reference with a null base is a ReferenceError
code1_GetValue(v, ctx, st) ==
    IF v.type # "reference" THEN Ok(v, ctx, st)
    ELSE IF v.base = NULL
    THEN SEE_error_throw_string("ReferenceError", v.property, ctx, st)
    ELSE Ok(SEE_OBJECT_GET(st, v.base, v.property), ctx, st)

\* the instruction loop is running and may fetch one more instruction
Fetch == engine = "vm" /\ pc = "exec" /\ steps < MaxSteps

\* the operand stack
TOP == stack[Len(stack)]
POP0 == SubSeq(stack, 1, Len(stack) - 1)
PUSH(s, v) == Append(s, v)

\* SEE_THROW out of code1_exec: the longjmp leaves the function
Raise(o) ==
    /\ pc' = "done"
    /\ result' = [thrown |-> TRUE, res |-> o.res]
    /\ interp' = o.st
    /\ steps' = steps + 1
    /\ UNCHANGED <<subvars, engine, prog, context, stack, blocks, scope, creg>>

\* the instruction replaced the top of the stack, or threw
ReplaceTop(o, rest) ==
    IF o.thrown THEN Raise(o)
    ELSE /\ stack' = PUSH(rest, o.res)
         /\ interp' = o.st
         /\ steps' = steps + 1
         /\ UNCHANGED <<subvars, engine, pc, prog, context, result, blocks, scope, creg>>

INST_DUP ==
    /\ Fetch
    /\ Len(stack) >= 1
    /\ Len(stack) < MaxStack
    /\ stack' = PUSH(stack, TOP)
    /\ steps' = steps + 1
    /\ UNCHANGED <<subvars, engine, pc, prog, context, interp, result, blocks, scope, creg>>

INST_POP ==
    /\ Fetch
    /\ Len(stack) >= 1
    /\ stack' = POP0
    /\ steps' = steps + 1
    /\ UNCHANGED <<subvars, engine, pc, prog, context, interp, result, blocks, scope, creg>>

INST_THROW ==
    /\ Fetch
    /\ Len(stack) >= 1
    /\ Raise(SEE_THROW(TOP, context, ThrowPoint(interp)))

INST_SETC ==
    /\ Fetch
    /\ Len(stack) >= 1
    /\ creg' = TOP
    /\ stack' = POP0
    /\ steps' = steps + 1
    /\ UNCHANGED <<subvars, engine, pc, prog, context, interp, result, blocks, scope>>

INST_GETC ==
    /\ Fetch
    /\ Len(stack) < MaxStack
    /\ stack' = PUSH(stack, creg)
    /\ steps' = steps + 1
    /\ UNCHANGED <<subvars, engine, pc, prog, context, interp, result, blocks, scope, creg>>

INST_GETVALUE ==
    /\ Fetch
    /\ Len(stack) >= 1
    /\ ReplaceTop(code1_GetValue(TOP, context, interp), POP0)

\* the name is looked up in the machine's local scope chain
INST_LOOKUP ==
    /\ Fetch
    /\ Len(stack) >= 1
    /\ TOP.type = "string"
    /\ stack' = PUSH(POP0, SEE_scope_lookup(interp, scope, TOP.string))
    /\ steps' = steps + 1
    /\ UNCHANGED <<subvars, engine, pc, prog, context, interp, result, blocks, scope, creg>>

\* what INST_TYPEOF stores through vp: a Reference with a null base gives
\* "undefined" and GetValue is not called for it
code1_typeof(v, ctx, st) ==
    IF v.type = "reference" /\ v.base = NULL
    THEN Ok(String("undefined"), ctx, st)
    ELSE LET o == code1_GetValue(v, ctx, st) IN
         IF o.thrown THEN o
         ELSE Ok(String(TypeofString(o.st, o.res)), o.ctx, o.st)

INST_TYPEOF ==
    /\ Fetch
    /\ Len(stack) >= 1
    /\ ReplaceTop(code1_typeof(TOP, context, interp), POP0)

INST_TOOBJECT ==
    /\ Fetch
    /\ Len(stack) >= 1
    /\ TOP.type # "reference"
    /\ ReplaceTop(SEE_ToObject(TOP, context, interp), POP0)

\* The instruction touched memory outside the operand stack or the block
\* stack.  What the machine does from there on is not defined.
Fault ==
    /\ pc' = "fault"
    /\ steps' = steps + 1
    /\ UNCHANGED <<subvars, engine, prog, context, interp, result, stack, scope, creg>>

\* the two values on top change places; the depth of the stack is not
\* tested
INST_EXCH ==
    /\ Fetch
    /\ IF Len(stack) >= 2
       THEN /\ stack' = SubSeq(stack, 1, Len(stack) - 2)
                            \o <<stack[Len(stack)], stack[Len(stack) - 1]>>
            /\ steps' = steps + 1
            /\ UNCHANGED <<subvars, engine, pc, prog, context, interp, result, blocks,
                           scope, creg>>
       ELSE Fault /\ UNCHANGED blocks

\* the three values on top are rotated; the depth of the stack is not
\* tested
INST_ROLL3 ==
    /\ Fetch
    /\ IF Len(stack) >= 3
       THEN /\ stack' = SubSeq(stack, 1, Len(stack) - 3)
                            \o <<stack[Len(stack)], stack[Len(stack) - 2],
                                 stack[Len(stack) - 1]>>
            /\ steps' = steps + 1
            /\ UNCHANGED <<subvars, engine, pc, prog, context, interp, result, blocks,
                           scope, creg>>
       ELSE Fault /\ UNCHANGED blocks

\* NOT_IMPLEMENTED: INST_EQ, INST_SEQ, INST_S_TRYC and INST_S_TRYF throw an
\* Error and do nothing else
NOT_IMPLEMENTED(ctx, st) == SEE_error_throw_string("Error", "not_implemented", ctx, st)

INST_EQ == Fetch /\ Raise(NOT_IMPLEMENTED(context, interp))

INST_SEQ == Fetch /\ Raise(NOT_IMPLEMENTED(context, interp))

INST_S_TRYC == Fetch /\ Raise(NOT_IMPLEMENTED(context, interp))

INST_S_TRYF == Fetch /\ Raise(NOT_IMPLEMENTED(context, interp))

\* The names SEE_enumerate can return for an object of this heap.  No
\* property of this heap is DONTENUM and no object has a prototype, so the
\* names are the own names of the object, each once, in the order of their
\* addresses, which is any order.
heap_enumerate(st, o) ==
    {props \in [1..Cardinality(DOMAIN st.heap[o].props) -> DOMAIN st.heap[o].props] :
        \A i, j \in DOMAIN props : props[i] = props[j] => i = j}

\* The frame is written at blockbottom[blocklevel]; blocklevel is not
\* tested against co->maxblock.  A block beyond MaxBlock is memory outside
\* the block stack.
PushBlock(block) ==
    /\ blocks' = Append(blocks, block)
    /\ pc' = IF Len(blocks) < MaxBlock THEN pc ELSE "fault"

\* an ENUM block holds the names still to visit
INST_S_ENUM ==
    /\ Fetch
    /\ Len(stack) >= 1
    /\ TOP.type = "object"
    /\ \E props \in heap_enumerate(interp, TOP.object) :
        PushBlock([type |-> "ENUM", next |-> <<>>, obj |-> TOP.object, props |-> props])
    /\ stack' = POP0
    /\ steps' = steps + 1
    /\ UNCHANGED <<subvars, engine, prog, context, interp, result, scope, creg>>

\* a WITH block remembers the scope chain it extends
INST_S_WITH ==
    /\ Fetch
    /\ Len(stack) >= 1
    /\ TOP.type = "object"
    /\ PushBlock([type |-> "WITH", next |-> scope, obj |-> TOP.object, props |-> <<>>])
    /\ scope' = <<TOP.object>> \o scope
    /\ stack' = POP0
    /\ steps' = steps + 1
    /\ UNCHANGED <<subvars, engine, prog, context, interp, result, creg>>

\* The local enum_context points at the innermost ENUM block, or is NULL:
\* INST_S_ENUM links the new block to the previous one and INST_END puts
\* the previous one back.  It is modelled by the index of that block.
enum_context ==
    IF \E i \in DOMAIN blocks : blocks[i].type = "ENUM"
    THEN CHOOSE i \in DOMAIN blocks :
            /\ blocks[i].type = "ENUM"
            /\ \A j \in (i + 1)..Len(blocks) : blocks[j].type # "ENUM"
    ELSE NULL

\* the names of the enumerator that the object still has
RECURSIVE SkipDeleted(_, _, _)
SkipDeleted(st, obj, props) ==
    IF props # <<>> /\ ~SEE_OBJECT_HASPROPERTY(st, obj, Head(props))
    THEN SkipDeleted(st, obj, Tail(props))
    ELSE props

\* INST_B_ENUM: the next name the object still has is pushed and the branch
\* is taken; with no name left the instruction falls through
INST_B_ENUM ==
    /\ Fetch
    /\ enum_context # NULL
    /\ \E props \in {SkipDeleted(interp, blocks[enum_context].obj,
                                  blocks[enum_context].props)} :
        IF props # <<>>
        THEN /\ Len(stack) < MaxStack
             /\ stack' = PUSH(stack, String(Head(props)))
             /\ blocks' = [blocks EXCEPT ![enum_context].props = Tail(props)]
        ELSE /\ stack' = stack
             /\ blocks' = [blocks EXCEPT ![enum_context].props = props]
    /\ steps' = steps + 1
    /\ UNCHANGED <<subvars, engine, pc, prog, context, interp, result, scope, creg>>

\* the checks INST_CALL and INST_NEW make on the callee value
CalleeCheck(v, has, notmsg, ctx, st) ==
    IF v.type = "undefined"
    THEN SEE_error_throw_string("TypeError", "no_such_function", ctx, st)
    ELSE IF v.type # "object"
    THEN SEE_error_throw_string("TypeError", "not_a_function", ctx, st)
    ELSE IF ~has
    THEN SEE_error_throw_string("TypeError", notmsg, ctx, st)
    ELSE Ok(v, ctx, st)

\* No traceback entry is made for the call (XXX SEE_TRACE_CALL).
INST_NEW ==
    /\ Fetch
    /\ \E arg \in 0..MaxArgc :
        /\ Len(stack) >= arg + 1
        /\ LET argv == SubSeq(stack, Len(stack) - arg + 1, Len(stack))
               vp == stack[Len(stack) - arg]
               rest == SubSeq(stack, 1, Len(stack) - arg - 1)
               o1 == CalleeCheck(vp,
                        vp.type = "object" /\ SEE_OBJECT_HAS_CONSTRUCT(interp, vp.object),
                        "not_a_constructor", context, interp)
           IN  /\ vp.type # "reference"
               /\ IF o1.thrown THEN Raise(o1)
                  ELSE ReplaceTop(SEE_OBJECT_CONSTRUCT(vp.object, argv, context, interp), rest)

\* The this-object is the base of the callee Reference unless that base is
\* an activation object.  No traceback entry is made for the call.
INST_CALL ==
    /\ Fetch
    /\ \E arg \in 0..MaxArgc :
        /\ Len(stack) >= arg + 1
        /\ LET argv == SubSeq(stack, Len(stack) - arg + 1, Len(stack))
               vp == stack[Len(stack) - arg]
               rest == SubSeq(stack, 1, Len(stack) - arg - 1)
               base == IF vp.type = "reference" THEN vp.base ELSE NULL
               baseobj == IF base # NULL /\ IS_ACTIVATION_OBJECT(interp, base)
                          THEN NULL ELSE base
               o0 == code1_GetValue(vp, context, interp)
               o1 == IF o0.thrown THEN o0
                     ELSE CalleeCheck(o0.res,
                            o0.res.type = "object" /\ SEE_OBJECT_HAS_CALL(interp, o0.res.object),
                            "not_callable", context, interp)
           IN  IF o1.thrown THEN Raise(o1)
               ELSE ReplaceTop(SEE_OBJECT_CALL(o1.res.object, baseobj, argv, context,
                                    LogCall(o1.st, o1.res.object, base, baseobj)), rest)

\* INST_END: the loop  while (new_blocklevel <= blocklevel)  of the source;
\* it returns from code1_exec when the block level has reached 0
RECURSIVE EndBlocks(_, _, _)
EndBlocks(new_blocklevel, blks, sc) ==
    IF new_blocklevel <= Len(blks)
    THEN IF Len(blks) = 0
         THEN [returned |-> TRUE, blocks |-> blks, scope |-> sc]
         ELSE LET block == blks[Len(blks)] IN
              EndBlocks(new_blocklevel, SubSeq(blks, 1, Len(blks) - 1),
                        IF block.type = "WITH" THEN block.next ELSE sc)
    ELSE [returned |-> FALSE, blocks |-> blks, scope |-> sc]

INST_END ==
    /\ Fetch
    /\ \E arg \in 0..MaxBlock :
        LET e == EndBlocks(arg, blocks, scope) IN
        /\ blocks' = e.blocks
        /\ scope' = e.scope
        /\ pc' = IF e.returned THEN "done" ELSE pc
        /\ result' = IF e.returned THEN [thrown |-> FALSE, res |-> creg] ELSE result
    /\ steps' = steps + 1
    /\ UNCHANGED <<subvars, engine, prog, context, interp, stack, creg>>

INST_LITERAL ==
    /\ Fetch
    /\ Len(stack) < MaxStack
    /\ \E arg \in DOMAIN literal : stack' = PUSH(stack, literal[arg])
    /\ steps' = steps + 1
    /\ UNCHANGED <<subvars, engine, pc, prog, context, interp, result, blocks, scope, creg>>

code1_exec ==
    \/ INST_DUP
    \/ INST_POP
    \/ INST_THROW
    \/ INST_SETC
    \/ INST_GETC
    \/ INST_GETVALUE
    \/ INST_LOOKUP
    \/ INST_TYPEOF
    \/ INST_TOOBJECT
    \/ INST_S_WITH
    \/ INST_NEW
    \/ INST_CALL
    \/ INST_END
    \/ INST_LITERAL
    \/ INST_EXCH
    \/ INST_ROLL3
    \/ INST_EQ
    \/ INST_SEQ
    \/ INST_S_TRYC
    \/ INST_S_TRYF
    \/ INST_S_ENUM
    \/ INST_B_ENUM

Next == SEE_eval_functionbody \/ code1_exec

Spec == Init /\ [][Next]_vars

-----------------------------------------------------------------------------
(* The parser on its own: one source statement is parsed *)

InitParse ==
    /\ Idle
    /\ forin = NoForin
    /\ lexer = NoLexer
    /\ file = NoFile
    /\ cfargs = NoArgs
    /\ parser \in {[state |-> "source", source |-> s, err |-> FALSE, p |-> parser_init] :
                    s \in Sources}

\* SEE_parse_program as far as labels go: parse the one statement
Program_parse ==
    /\ parser.state = "source"
    /\ \E o \in {Statement_parse(parser.source, parser.p)} :
        parser' = [parser EXCEPT !.state = "parsed", !.err = o.err, !.p = o.p]
    /\ UNCHANGED notparser

SpecParse == InitParse /\ [][Program_parse]_vars

\* The parser on the sources with functions
InitParseFunction ==
    /\ Idle
    /\ forin = NoForin
    /\ lexer = NoLexer
    /\ file = NoFile
    /\ cfargs = NoArgs
    /\ parser \in {[state |-> "source", source |-> src, err |-> FALSE, p |-> parser_init] :
                     src \in FunctionSources}

SpecParseFunction == InitParseFunction /\ [][Program_parse]_vars

-----------------------------------------------------------------------------
(* Properties.  The vocabulary first. *)

TreeDone == engine = "tree" /\ pc = "done"

\* what the run delivered, as a completion
Delivered == Caught(result)

\* the records of the evaluations of the statement at location l
EvalsAt(l) == {i \in DOMAIN interp.evals : interp.evals[i].loc = l}
EvalAt(l) == interp.evals[CHOOSE i \in EvalsAt(l) : TRUE]

\* the run ended the way the completion c says: a THROW is an exception in
\* flight, anything else is handed back in res
EndedAs(c) == result.thrown = (c.ctype = "THROW") /\ Delivered = c

HasFinally(n) == n.nodeclass \in {"TryStatement_finally", "TryStatement_catchfinally"}

\* C1: in try/catch/finally, when the finally block completes abnormally
\* (break, continue, return, or an exception), the completion of the whole
\* statement is the completion of the finally block.
C1_FinallyOverrides ==
    (TreeDone /\ prog.nodeclass = "TryStatement_catchfinally") =>
        \A i \in EvalsAt(3) :
            interp.evals[i].out.ctype # "NORMAL" => EndedAs(interp.evals[i].out)

\* C2: in try/catch/finally, when the try block throws and both the catch
\* block and the finally block complete normally, the statement completes
\* normally with the completion value of the catch block;
\* try { throw "s" } catch (e) { e } finally { "f" } has the value "s".
C2_CatchValueSurvives ==
    (TreeDone /\ prog.nodeclass = "TryStatement_catchfinally"
        /\ EvalsAt(1) # {} /\ EvalAt(1).out.ctype = "THROW"
        /\ EvalsAt(2) # {} /\ EvalAt(2).out.ctype = "NORMAL"
        /\ EvalsAt(3) # {} /\ EvalAt(3).out.ctype = "NORMAL") =>
            /\ ~result.thrown
            /\ result.res.ctype = "NORMAL"
            /\ result.res.value = EvalAt(2).out.value
            /\ (prog = TryStatement_catchfinally_node(4, Leaf("throw", 1), "e",
                            Leaf("caught", 2), Leaf("lit", 3))
                    => result.res.value = String("s"))

\* C3: in try/finally, a finally block that completes abnormally decides the
\* completion of the statement, even when the try block threw; a finally
\* block that completes normally leaves the completion of the try block in
\* place, and an exception of the try block is thrown again after it.
C3_TryFinally ==
    (TreeDone /\ prog.nodeclass = "TryStatement_finally") =>
        /\ EvalsAt(1) # {} /\ EvalsAt(3) # {}
        /\ IF EvalAt(3).out.ctype # "NORMAL"
           THEN EndedAs(EvalAt(3).out)
           ELSE EndedAs(EvalAt(1).out)

\* the try block threw, the finally block ended in a break, and the break is
\* what the statement delivered
C3_Witness ==
    /\ TreeDone /\ prog.nodeclass = "TryStatement_finally"
    /\ EvalsAt(1) # {} /\ EvalAt(1).out.ctype = "THROW"
    /\ EvalsAt(3) # {} /\ EvalAt(3).out.ctype = "BREAK"
    /\ ~result.thrown /\ result.res.ctype = "BREAK"

\* the try block threw, the finally block completed normally, and the
\* exception is in flight after it
C3_WitnessRethrow ==
    /\ TreeDone /\ prog.nodeclass = "TryStatement_finally"
    /\ EvalsAt(1) # {} /\ EvalAt(1).out.ctype = "THROW"
    /\ EvalsAt(3) # {} /\ EvalAt(3).out.ctype = "NORMAL"
    /\ result.thrown /\ result.res = EvalAt(1).out.value

\* C4: each evaluation of a try statement that has a finally block
\* evaluates the finally block exactly once, before the statement ends.
C4_FinallyOnce ==
    \A i \in EvalsAt(4) :
        (engine = "tree" /\ (HasFinally(prog) \/ (prog.nodeclass = "WithStatement" /\ HasFinally(prog.b)))) =>
            /\ Cardinality(EvalsAt(3)) = 1
            /\ \A j \in EvalsAt(3) : j < i

\* a try/catch/finally whose try block and catch block both threw has
\* evaluated its finally block
C4_Witness ==
    /\ TreeDone /\ prog.nodeclass = "TryStatement_catchfinally"
    /\ EvalsAt(1) # {} /\ EvalAt(1).out.ctype = "THROW"
    /\ EvalsAt(2) # {} /\ EvalAt(2).out.ctype = "THROW"
    /\ Cardinality(EvalsAt(3)) = 1 /\ Cardinality(EvalsAt(4)) = 1

\* C5: the value field of every Completion a statement produces is a plain
\* value, never a Reference and never a Completion.
C5_CompletionValuesPlain ==
    \A i \in DOMAIN interp.evals :
        interp.evals[i].out.value.type \notin {"reference", "completion"}

\* C6: typeof of an identifier that resolves to nothing gives "undefined"
\* and throws nothing, with no compatibility flag set, in the tree-walk
\* evaluator and in the bytecode machine.
C6_TypeofUndeclared ==
    /\ (TreeDone /\ prog = Leaf("typeof", 1) /\ ~interp.compat_undefdef) =>
            (~result.thrown /\ result.res.value = String("undefined"))
    /\ (engine = "vm" /\ pc = "exec" /\ stack # <<>>
            /\ TOP.type = "reference" /\ TOP.base = NULL) =>
            LET o == code1_typeof(TOP, context, interp) IN
            ~o.thrown /\ o.res = String("undefined")

\* C7: when a call or construct expression has finished, by returning or by
\* an exception that was caught, the traceback list is what it was before.
C7_TracebackBalanced ==
    (TreeDone /\ ~result.thrown) => interp.traceback = <<>>

\* the callees of the traceback entries, most recent first
Callees(tb) == [i \in DOMAIN tb |-> tb[i].callee]

\* C8: at every throw the traceback list has one entry for each call or
\* construct in progress, most recent first, under both engines.
C8_TracebackMatchesFrames ==
    \A i \in DOMAIN interp.throws :
        Callees(interp.throws[i].traceback) = interp.throws[i].frames

\* the scope chain of the machine is the context's chain extended by the
\* objects of the open WITH blocks, innermost first
RECURSIVE WithObjects(_)
WithObjects(blks) ==
    IF blks = <<>> THEN <<>>
    ELSE (IF blks[Len(blks)].type = "WITH" THEN <<blks[Len(blks)].obj>> ELSE <<>>)
            \o WithObjects(SubSeq(blks, 1, Len(blks) - 1))

\* the scope chain the run started with
InitialScope == IF context.activation = NULL THEN GlobalContext.scope ELSE FunctionContext.scope

\* C9: when a with statement or a catch block has ended, by any path, the
\* scope chain of the context is what it was before; under the bytecode
\* machine the context's chain is never changed and the machine's own chain
\* is the context's chain plus the open WITH blocks.
C9_ScopeRestored ==
    /\ \A i \in DOMAIN interp.evals :
            interp.evals[i].scope_out = interp.evals[i].scope_in
    /\ context.scope = InitialScope
    /\ engine = "vm" => scope = WithObjects(blocks) \o context.scope

\* a catch block holding a with statement: its body ran with the with object
\* and the catch object in front of the chain, and threw through both
C9_Witness ==
    /\ TreeDone /\ result.thrown
    /\ prog.nodeclass = "TryStatement_catch"
    /\ prog.bcatch.nodeclass = "WithStatement"
    /\ EvalsAt(5) # {} /\ EvalAt(5).out.ctype = "THROW"
    /\ EvalsAt(2) # {} /\ EvalAt(2).out.ctype = "THROW"
    /\ Len(EvalAt(2).scope_in) = Len(InitialScope) + 2
    /\ Head(EvalAt(2).scope_in) = 5
    /\ Tail(EvalAt(2).scope_in) = EvalAt(5).scope_in
    /\ Tail(EvalAt(5).scope_in) = InitialScope

\* C10: a call whose callee Reference has an activation object as its base,
\* the running function's or an enclosing function's, hands the callee a
\* null this.
C10_ActivationThisIsNull ==
    \A i \in DOMAIN interp.calls :
        (interp.calls[i].base # NULL
            /\ IS_ACTIVATION_OBJECT(interp, interp.calls[i].base))
        => interp.calls[i].thisobj = NULL

-----------------------------------------------------------------------------
(* Enumeration and the for-in loop on their own *)

InitEnum ==
    /\ Idle
    /\ parser = NoParser
    /\ lexer = NoLexer
    /\ file = NoFile
    /\ cfargs = NoArgs
    /\ forin \in {[NoForin EXCEPT !.state = "ready", !.chain = c, !.address = ad] :
                    c \in EnumChains, ad \in Addresses}

\* for (props = SEE_enumerate(interp, r3.u.object); ...
forin_enumerate ==
    /\ forin.state = "ready"
    /\ \E props \in SEE_enumerate(forin.chain, forin.address) :
        forin' = [forin EXCEPT !.state = "loop", !.props = props, !.i = 1]
    /\ UNCHANGED notforin

\* One pass of the loop of IterationStatement_forin_eval.  A name the
\* object no longer has is passed over; for any other the name is assigned
\* to the left-hand side and the body is evaluated (the observer field
\* visits records the name and whether the object had it).  The body deletes a
\* property of the object or of a prototype, or nothing, and completes
\* normally or with a break of this loop.
forin_pass ==
    /\ forin.state = "loop"
    /\ forin.i <= Len(forin.props)
    /\ IF ~HasProperty(forin.chain, forin.props[forin.i])
       THEN forin' = [forin EXCEPT !.i = @ + 1]
       ELSE \E del \in {<<0, "">>} \cup Deletable(forin), brk \in BOOLEAN :
            /\ forin' = [forin EXCEPT
                    !.visits = Append(@, [name |-> forin.props[forin.i],
                                          has |-> HasProperty(forin.chain,
                                                        forin.props[forin.i])]),
                    !.chain = IF del[1] = 0 THEN @ ELSE Delete(@, del[1], del[2]),
                    !.deleted = IF del[1] = 0 THEN @ ELSE @ \cup {del},
                    !.i = @ + 1,
                    !.state = IF brk THEN "done" ELSE @]
    /\ UNCHANGED notforin

\* the list is exhausted: SEE_SET_COMPLETION(res, SEE_NORMAL, v, NULL)
forin_end ==
    /\ forin.state = "loop"
    /\ forin.i > Len(forin.props)
    /\ forin' = [forin EXCEPT !.state = "done"]
    /\ UNCHANGED notforin

NextEnum == forin_enumerate \/ forin_pass \/ forin_end

SpecEnum == InitEnum /\ [][NextEnum]_vars

-----------------------------------------------------------------------------
(* The lexer reading an input, token by token *)

InitLex ==
    /\ Idle
    /\ parser = NoParser
    /\ forin = NoForin
    /\ file = NoFile
    /\ cfargs = NoArgs
    /\ lexer \in {[NoLexer EXCEPT !.state = "created", !.input = input] : input \in Inputs}

\* lex->next_follows_nl = 0, the scan, and the assignments to lex->next
\* and lex->next_follows_nl; a SyntaxError leaves the function
lex_next ==
    \E r \in {lex_again(lexer.input, lexer.pos, lexer.compat, FALSE)} :
    \E value \in {IF r.value = NullValue THEN lexer.value ELSE r.value} :
        lexer' = IF r.err
                 THEN [lexer EXCEPT !.state = "error", !.pos = r.pos,
                                    !.next_follows_nl = r.next_follows_nl,
                                    !.next_lineno = @ + r.lines]
                 ELSE [lexer EXCEPT !.state = "ready", !.pos = r.pos, !.next = r.token,
                                    !.next_follows_nl = r.next_follows_nl,
                                    !.next_lineno = @ + r.lines,
                                    !.value = value,
                                    !.tokens = Append(@, [token |-> r.token,
                                                          follows_nl |-> r.next_follows_nl,
                                                          lineno |-> lexer.next_lineno + r.lines,
                                                          value |-> value,
                                                          from |-> lexer.pos, start |-> r.start])]

\* SEE_lex_init: the first token is read
SEE_lex_init ==
    /\ lexer.state = "created"
    /\ lex_next
    /\ UNCHANGED notlexer

\* SEE_lex_next, called until the lookahead is tEND
SEE_lex_next ==
    /\ lexer.state = "ready"
    /\ lexer.next # "tEND"
    /\ lex_next
    /\ UNCHANGED notlexer

NextLex == SEE_lex_init \/ SEE_lex_next

SpecLex == InitLex /\ [][NextLex]_vars

\* The parser on the tokens of a program
InitTokens ==
    /\ Idle
    /\ forin = NoForin
    /\ lexer = NoLexer
    /\ file = NoFile
    /\ cfargs = NoArgs
    /\ parser \in {[NoTokens EXCEPT !.state = "lexed", !.tokens = tokens] :
                     tokens \in ChainPrograms \cup ForPrograms}

\* parse.c SEE_parse_program: parser_init and Program_parse
Program_parse_lexed ==
    /\ parser.state = "lexed"
    /\ \E r \in {Program_parse_tokens(parser_init_lex(parser.tokens))} :
           parser' = [parser EXCEPT !.state = "parsed", !.err = r.err, !.n = r.n]
    /\ UNCHANGED notparser

SpecTokens == InitTokens /\ [][Program_parse_lexed]_vars

\* The parser reading a token stream through NEXT, SKIP and lookahead; the
\* observer fields: consumed holds what NEXT, NEXT_VALUE, NEXT_LINENO and
\* NEXT_FOLLOWS_NL gave before each SKIP, peek the last lookahead
InitUnget ==
    /\ Idle
    /\ forin = NoForin
    /\ lexer = NoLexer
    /\ file = NoFile
    /\ cfargs = NoArgs
    /\ parser \in {[state |-> "reading", p |-> parser_init_lex(tokens), consumed |-> <<>>,
                      peek |-> [n |-> 0, token |-> "none"]] : tokens \in Streams}

\* read the next token and SKIP
Consume ==
    /\ parser.state = "reading"
    /\ NEXT(parser.p) # "tEND"
    /\ parser' = [parser EXCEPT !.p = SKIP(@), !.consumed = Append(@, NEXT_token(parser.p)),
                                 !.peek = [n |-> 0, token |-> "none"]]
    /\ UNCHANGED notparser

\* lookahead(parser, n) with the n that SEE_ASSERT lets through
Peek ==
    /\ parser.state = "reading"
    /\ \E n \in 0..(UNGET_MAX - 2) :
        \E r \in {lookahead(parser.p, n)} :
           parser' = [parser EXCEPT !.p = r.p, !.peek = [n |-> n, token |-> r.token]]
    /\ UNCHANGED notparser

NextUnget == Consume \/ Peek

SpecUnget == InitUnget /\ [][NextUnget]_vars

\* SEE_parse_args and SEE_call_args on each format
InitArgs ==
    /\ Idle
    /\ parser = NoParser
    /\ forin = NoForin
    /\ lexer = NoLexer
    /\ file = NoFile
    /\ cfargs \in {[NoArgs EXCEPT !.state = "parse", !.fmt = fmt, !.argv = argv] :
                      fmt \in Formats, argv \in ArgvLists}
                 \cup {[NoArgs EXCEPT !.state = "call", !.fmt = fmt, !.ap = ap] :
                      fmt \in Formats, ap \in VarArgs}

\* cfunction.c SEE_parse_args
SEE_parse_args ==
    /\ cfargs.state = "parse"
    /\ \E r \in {parse_args_loop(cfargs.fmt, 1, cfargs.argv, 0, TRUE, 0, <<>>)} :
           cfargs' = [cfargs EXCEPT !.state = r.state, !.out = r.out]
    /\ UNCHANGED notcfargs

\* cfunction.c SEE_call_args
SEE_call_args ==
    /\ cfargs.state = "call"
    /\ \E r \in {call_args(cfargs.fmt, cfargs.ap)} :
           cfargs' = IF r.abort
                     THEN [cfargs EXCEPT !.state = "SEE_ABORT"]
                     ELSE [cfargs EXCEPT !.state = "called", !.argv = r.argv,
                                         !.calls = Append(@, [argc |-> Len(r.argv),
                                                              argv |-> r.argv])]
    /\ UNCHANGED notcfargs

NextArgs == SEE_parse_args \/ SEE_call_args

SpecArgs == InitArgs /\ [][NextArgs]_vars

\* SEE_string_fputs on each string
InitFputs ==
    /\ Idle
    /\ parser = NoParser
    /\ forin = NoForin
    /\ lexer = NoLexer
    /\ cfargs = NoArgs
    /\ file \in {[NoFile EXCEPT !.state = "open", !.s = str] : str \in Strings}

\* string.c SEE_string_fputs: the bytes written stay in the file when the
\* error bad_utf16_string is thrown
SEE_string_fputs ==
    /\ file.state = "open"
    /\ \E r \in {fputs_loop(file.s, 1, <<>>)} :
           file' = [file EXCEPT !.state = IF r.thrown THEN "bad_utf16_string" ELSE "written",
                                !.f = r.f]
    /\ UNCHANGED notfile

SpecFputs == InitFputs /\ [][SEE_string_fputs]_vars

\* The lexer reading numeric literals, with and without the compatibility
\* flag EXT1
InitNum ==
    /\ Idle
    /\ parser = NoParser
    /\ forin = NoForin
    /\ file = NoFile
    /\ cfargs = NoArgs
    /\ lexer \in {[NoLexer EXCEPT !.state = "created", !.input = input, !.compat = compat] :
                    input \in NumInputs, compat \in {{}, {"EXT1"}}}

SpecNum == InitNum /\ [][NextLex]_vars

\* The lexer reading comments, with and without the compatibility flag
\* SGMLCOM
InitLine ==
    /\ Idle
    /\ parser = NoParser
    /\ forin = NoForin
    /\ file = NoFile
    /\ cfargs = NoArgs
    /\ lexer \in {[NoLexer EXCEPT !.state = "created", !.input = input, !.compat = compat] :
                    input \in LineInputs, compat \in {{}, {"SGMLCOM"}}}

SpecLine == InitLine /\ [][NextLex]_vars

-----------------------------------------------------------------------------
(* Jump targets *)

\* the first of the enclosing statements, innermost first, that carries the
\* label: its node when a jump of this kind may name it, a SyntaxError (err)
\* when it may not or when no statement carries the label
Resolve(encl, name, kinds) ==
    IF \E i \in DOMAIN encl : name \in encl[i].labels
    THEN Let(encl[CHOOSE i \in DOMAIN encl :
                    /\ name \in encl[i].labels
                    /\ \A j \in 1..(i - 1) : name \notin encl[j].labels], LAMBDA e :
         IF e.kind \in kinds THEN [err |-> FALSE, target |-> e.node]
         ELSE [err |-> TRUE, target |-> NULL])
    ELSE [err |-> TRUE, target |-> NULL]

\* What the grammar says of the jump statements of a source statement: the
\* pairs <<jump node, [err, target]>>.  A statement carries
\* the labels written before it; a loop also carries both implicit labels
\* and a switch the implicit break label.  A break may name a loop or a
\* switch, a continue a loop.
RECURSIVE JumpTargets(_, _, _)
JumpTargets(s, encl, pending) ==
    CASE s.kind = "LabelledStatement" -> JumpTargets(s.body, encl, pending \cup {s.name})
      [] s.kind = "Block" ->
            UNION {JumpTargets(s.stmts[i],
                        <<[node |-> NULL, labels |-> pending, kind |-> "other"]>> \o encl, {}) :
                   i \in DOMAIN s.stmts}
      [] s.kind = "IterationStatement" ->
            JumpTargets(s.body,
                <<[node |-> s.id, kind |-> "loop", labels |->
                    pending \cup {IMPLICIT_CONTINUE_LABEL, IMPLICIT_BREAK_LABEL}]>> \o encl, {})
      [] s.kind = "SwitchStatement" ->
            UNION {JumpTargets(s.stmts[i],
                        <<[node |-> s.id, kind |-> "switch", labels |->
                            pending \cup {IMPLICIT_BREAK_LABEL}]>> \o encl, {}) :
                   i \in DOMAIN s.stmts}
      [] s.kind = "WithStatement" ->
            JumpTargets(s.body,
                <<[node |-> s.id, labels |-> pending, kind |-> "other"]>> \o encl, {})
      [] s.kind = "BreakStatement" ->
            {<<s.id, Resolve(<<[node |-> s.id, labels |-> pending, kind |-> "other"]>> \o encl,
                        IF s.name = NoLabel THEN IMPLICIT_BREAK_LABEL ELSE s.name,
                        {"loop", "switch"})>>}
      [] s.kind = "ContinueStatement" ->
            {<<s.id, Resolve(<<[node |-> s.id, labels |-> pending, kind |-> "other"]>> \o encl,
                        IF s.name = NoLabel THEN IMPLICIT_CONTINUE_LABEL ELSE s.name,
                        {"loop"})>>}
      [] OTHER -> {}

\* C11: a break or continue whose label names no enclosing statement, or one
\* of the wrong kind, makes the parse raise SyntaxError; any other is given,
\* at parse time, the innermost enclosing statement that carries the label.
C11_JumpTargetsResolved ==
    parser.state = "parsed" =>
        /\ \A i \in DOMAIN parser.p.lookups :
            <<parser.p.lookups[i].node,
              [err |-> parser.p.lookups[i].err, target |-> parser.p.lookups[i].target]>>
                \in JumpTargets(parser.source, <<>>, {})
        /\ (\E j \in JumpTargets(parser.source, <<>>, {}) : j[2].err)
                => parser.err

-----------------------------------------------------------------------------
(* Enumeration *)

\* the shallowest object of the chain with an own property of the name
\* does not mark it DONTENUM
Enumerable(chain, name) ==
    \E d \in DOMAIN chain :
        /\ \E i \in DOMAIN chain[d] : chain[d][i].name = name /\ ~chain[d][i].dontenum
        /\ \A e \in 1..(d - 1) : \A i \in DOMAIN chain[e] : chain[e][i].name # name

\* the loop has its list of names and has not yet made a pass
Enumerated == forin.state = "loop" /\ forin.i = 1

\* C13: SEE_enumerate returns no name twice, and returns a name exactly
\* when the shallowest object of the prototype chain that has it as an own
\* property does not mark it DONTENUM.
C13_EnumerateShallowest ==
    Enumerated =>
        /\ \A i, j \in DOMAIN forin.props : forin.props[i] = forin.props[j] => i = j
        /\ \A n \in {"a", "b", "c", "q"} :
            (\E i \in DOMAIN forin.props : forin.props[i] = n)
                <=> Enumerable(forin.chain, n)

\* C12: the for-in loop assigns a name and runs the body at most once for
\* each name, and only for a name the object has when the pass starts.
C12_ForInVisitsOnce ==
    /\ \A i, j \in DOMAIN forin.visits :
            forin.visits[i].name = forin.visits[j].name => i = j
    /\ \A i \in DOMAIN forin.visits : forin.visits[i].has

-----------------------------------------------------------------------------
(* The bytecode machine *)

\* C14: END imm executed with at least imm open blocks takes the blocks
\* down one at a time, with the cleanup of each, and stops when the number
\* of open blocks is imm.
C14_EndReachesLevel ==
    (engine = "vm" /\ pc = "exec") =>
        \A imm \in 0..Len(blocks) : Len(EndBlocks(imm, blocks, scope).blocks) = imm

\* C15: whatever the bytecode, the operand stack holds between 0 and
\* maxstack values and the block stack between 0 and maxblock frames, and no
\* instruction reads below the bottom of the stack or writes beyond the
\* end of either stack.
C15_StacksWithinBounds ==
    /\ pc # "fault"
    /\ Len(stack) \in 0..MaxStack
    /\ Len(blocks) \in 0..MaxBlock

\* scenario 3 of the specification:  typeof undeclared
Scenario3 == UnaryExpression_typeof(PrimaryExpression_ident("undeclared"))

\* scenario 6:  try { throw "x" } catch (e) { e } finally { "f" }
Scenario6 ==
    TryStatement_catchfinally_node(4, ThrowStatement(1, Literal(String("x"))), "e",
        ExpressionStatement(2, PrimaryExpression_ident("e")),
        ExpressionStatement(3, Literal(String("f"))))

\* the machine and the evaluator both threw, or both delivered the same
\* value (the evaluator of a statement delivers the value of its completion)
Agree(vm, tree) ==
    /\ vm.thrown = tree.thrown
    /\ ~vm.thrown =>
        vm.res = IF tree.res.type = "completion" THEN tree.res.value ELSE tree.res

\* C16: on the scenarios of section 8 the bytecode machine delivers what
\* the tree-walk evaluator delivers.  The bytecode of scenario 6 begins with
\* the instruction that opens the try block; that of scenario 3 is
\* LITERAL "undeclared"; LOOKUP; TYPEOF.
C16_EnginesAgree ==
    (engine = "vm" /\ pc = "exec") =>
        /\ steps = 0 =>
            Agree(NOT_IMPLEMENTED(context, interp), EVAL(Scenario6, context, interp))
        /\ (stack # <<>> /\ TOP = Reference(NULL, "undeclared")) =>
            Agree(code1_typeof(TOP, context, interp), EVAL(Scenario3, context, interp))

\* what the claim says of the outcome o of GetValue applied to v
GetValueAsClaimed(o, v, st) ==
    IF v.type # "reference" THEN ~o.thrown /\ o.res = v
    ELSE IF v.base # NULL THEN TRUE
    ELSE IF st.compat_undefdef THEN ~o.thrown /\ o.res = Undefined
    ELSE o.thrown /\ o.st.heap[o.res.object].class = "ReferenceError"

\* C17: GetValue of a Reference with a null base throws ReferenceError when
\* the UNDEFDEF flag is clear and gives undefined when it is set, and
\* GetValue of a value that is not a Reference gives the value, in the
\* evaluator (parse.c) and in the machine (code1.c: applied here to the
\* value on top of the stack).
C17_GetValueNullBase ==
    /\ \A v \in {Reference(NULL, "undeclared"), String("s"), Undefined} :
            GetValueAsClaimed(GetValue(v, context, interp), v, interp)
    /\ (engine = "vm" /\ pc = "exec" /\ stack # <<>>) =>
            GetValueAsClaimed(code1_GetValue(TOP, context, interp), TOP, interp)

-----------------------------------------------------------------------------
(* Compound assignment, 11.13.2 *)

\* lhs op= rhs has been evaluated
Assigned == engine = "tree" /\ pc = "done" /\ prog.a.nodeclass \in AssignClasses

\* the positions of the events of a kind in interp.order
Events(ev) == {i \in DOMAIN interp.order : interp.order[i].ev = ev}
Event(ev) == interp.order[CHOOSE i \in Events(ev) : TRUE]

\* what the operator of the class gives for the values a and b
Combine(class, a, b) ==
    CASE class = "AssignmentExpression_muleq" ->
            IF SEE_ToNumber(a).nan \/ SEE_ToNumber(b).nan THEN SEE_NaN
            ELSE Number(SEE_ToNumber(a).number * SEE_ToNumber(b).number)
      [] class = "AssignmentExpression_addeq" ->
            IF a.type = "string" \/ b.type = "string"
            THEN String(SEE_ToString(a).string \o SEE_ToString(b).string)
            ELSE IF SEE_ToNumber(a).nan \/ SEE_ToNumber(b).nan THEN SEE_NaN
            ELSE Number(SEE_ToNumber(a).number + SEE_ToNumber(b).number)
      [] class = "AssignmentExpression_urshifteq" ->
            Number(SEE_ToUint32(a) \div 2^(SEE_ToUint32(b) % 32))

\* the value a Reference designates before the statement runs
ValueBefore(ref) ==
    IF ref.base = NULL THEN Undefined
    ELSE SEE_OBJECT_GET(AssignInterp(FALSE), ref.base, ref.property)

\* C18: a compound assignment evaluates its left-hand side to a Reference,
\* applies GetValue to it, then evaluates its right-hand side, then applies
\* the operator to the two values and stores the result with PutValue
\* through the Reference computed first; the left-hand value combined is
\* the one read before the right-hand side ran.  When GetValue throws, the
\* right-hand side is not evaluated and nothing is stored.
C18_CompoundAssignmentOrder ==
    Assigned =>
        /\ Cardinality(Events("lhs")) = 1
        /\ Event("lhs").v =
                IF prog.a.lhs.nodeclass = "MemberExpression_dot"
                THEN Reference(5, prog.a.lhs.name)
                ELSE SEE_scope_lookup(AssignInterp(FALSE), context.scope, prog.a.lhs.string)
        /\ result.thrown =>
                /\ interp.order = <<Event("lhs")>>
                /\ \A o \in DOMAIN AssignInterp(FALSE).heap :
                        interp.heap[o] = AssignInterp(FALSE).heap[o]
        /\ ~result.thrown =>
                /\ Cardinality(Events("GetValue")) = 1
                /\ Cardinality(Events("rhs")) = 1
                /\ \A i \in Events("lhs"), j \in Events("GetValue"), k \in Events("rhs") :
                        /\ i = 1 /\ j = 2 /\ k > j
                        /\ \A l \in Events("PutValue") : l > j
                        /\ Len(interp.order) \in Events("PutValue")
                        /\ Len(interp.order) > k
                /\ Event("GetValue").v = ValueBefore(Event("lhs").v)
                /\ interp.order[Len(interp.order)].ref = Event("lhs").v
                /\ interp.order[Len(interp.order)].v =
                        Combine(prog.a.nodeclass, Event("GetValue").v, Event("rhs").v)
                /\ result.res.value = interp.order[Len(interp.order)].v
                /\ SEE_OBJECT_GET(interp,
                        IF Event("lhs").v.base = NULL THEN Global ELSE Event("lhs").v.base,
                        Event("lhs").v.property) = interp.order[Len(interp.order)].v

\* with (o) { x += (o.x = 3) }: the right-hand side creates o.x, which
\* hides the global x the left-hand side designated; the global x becomes 5
C18_Witness ==
    /\ Assigned
    /\ context = WithContext
    /\ prog.a = AssignmentExpression("AssignmentExpression_addeq",
                    PrimaryExpression_ident("x"),
                    AssignmentExpression("AssignmentExpression_simple",
                        MemberExpression_dot(PrimaryExpression_ident("o"), "x"),
                        Literal(Number(3))))
    /\ ~result.thrown
    /\ interp.heap[Global].props["x"] = Number(5)
    /\ interp.heap[5].props["x"] = Number(3)

\* x *= (x = 3): the product is made with the 2 read before x became 3
C18_WitnessSelf ==
    /\ Assigned
    /\ prog.a = AssignmentExpression("AssignmentExpression_muleq",
                    PrimaryExpression_ident("x"),
                    AssignmentExpression("AssignmentExpression_simple",
                        PrimaryExpression_ident("x"), Literal(Number(3))))
    /\ result = [thrown |-> FALSE, res |-> Completion("NORMAL", Number(6), NULL)]

-----------------------------------------------------------------------------
(* Declaration binding on entry to a function body or program, 10.1.3 *)

\* the entries to function bodies and the starts of their statements, in
\* the order they happened
Entries == SelectSeq(interp.order, LAMBDA e : e.ev \in {"FunctionBody", "SourceElements"})

\* the names of a list of function declarations
FunctionNames(functions) == {functions[i].function.name : i \in DOMAIN functions}
VarNames(varlist) == {varlist[i] : i \in DOMAIN varlist}

\* the last declaration of the name in the list
LastDeclaration(functions, name) ==
    functions[CHOOSE i \in DOMAIN functions :
                /\ functions[i].function.name = name
                /\ \A j \in DOMAIN functions : functions[j].function.name = name => j <= i]

\* the variable object, which had the properties before on entry, has been
\* set up for the body se when its first statement starts with the
\* properties after
Bound(se, before, after) ==
    /\ DOMAIN after = DOMAIN before \cup FunctionNames(se.functions) \cup VarNames(se.vars)
    /\ \A name \in FunctionNames(se.functions) :
            /\ after[name].type = "object"
            /\ interp.heap[after[name].object].class = "Function"
            /\ interp.heap[after[name].object].function =
                    LastDeclaration(se.functions, name).function
    /\ \A name \in DOMAIN after \ FunctionNames(se.functions) :
            after[name] = IF name \in DOMAIN before THEN before[name] ELSE Undefined

\* C19: on entry to a function body or program every function declaration
\* of it is bound on the variable object before any statement runs, and a
\* declared variable is created with the value undefined only if the
\* variable object does not have the property; a declared variable never
\* overwrites a function declaration or a parameter of the same name.
C19_DeclarationsBound ==
    (engine = "tree" /\ pc = "done" /\ prog.nodeclass = "FunctionBody") =>
        /\ Len(Entries) >= 2
        /\ \A i \in DOMAIN Entries :
                IF i % 2 = 1
                THEN Entries[i].ev = "FunctionBody" /\ i + 1 \in DOMAIN Entries
                ELSE /\ Entries[i].ev = "SourceElements"
                     /\ Entries[i].node = Entries[i - 1].node
                     /\ Entries[i].variable = Entries[i - 1].variable
                     /\ Bound(Entries[i].node, Entries[i - 1].props, Entries[i].props)
        /\ \A i \in DOMAIN interp.order :
                interp.order[i].ev = "PutValue" =>
                    \E j \in 1..(i - 1) : interp.order[j].ev = "SourceElements"

\* function k(p) { var p; function q() {} }  k("arg"): in the body of k the
\* parameter p keeps the argument and q is a function when the statements
\* start
C19_Witness ==
    /\ engine = "tree" /\ pc = "done" /\ prog.nodeclass = "FunctionBody"
    /\ \E i \in DOMAIN Entries :
            /\ Entries[i].ev = "SourceElements"
            /\ Entries[i].node.vars = <<"p">>
            /\ FunctionNames(Entries[i].node.functions) = {"q"}
            /\ Entries[i - 1].props = ("p" :> String("arg"))
            /\ Entries[i].props["p"] = String("arg")
            /\ Entries[i].props["q"].type = "object"

-----------------------------------------------------------------------------
(* Line terminators before a token, 7.9 *)

\* C20: the follows_nl bit of a token the lexer delivers is true exactly
\* when a LineTerminator, one inside a /* */ comment or one ending a //
\* comment included, lies between the previous token delivered and the
\* token; the bit of the end-of-input token is always true.
C20_FollowsNewline ==
    \A k \in DOMAIN lexer.tokens :
        Let(lexer.tokens[k], LAMBDA t :
        t.follows_nl <=>
            \/ t.token = "tEND"
            \/ \E i \in t.from..(t.start - 1) : is_LineTerminator(lexer.input[i]))

\* a /* comment with a line terminator in it between two identifiers: the
\* second identifier follows a newline
C20_Witness ==
    /\ lexer.input = <<"a", "/", "*", "\n", "*", "/", "a">>
    /\ Len(lexer.tokens) = 2
    /\ lexer.tokens[2] = [token |-> "tIDENT", follows_nl |-> TRUE, lineno |-> 2,
                          value |-> String("a"), from |-> 2, start |-> 7]

\* a /* comment without a line terminator: the identifier after it does not
\* follow a newline
C20_WitnessNoNewline ==
    /\ lexer.input = <<"a", "/", "*", " ", "*", "/", "a">>
    /\ Len(lexer.tokens) = 2
    /\ lexer.tokens[2] = [token |-> "tIDENT", follows_nl |-> FALSE, lineno |-> 1,
                          value |-> String("a"), from |-> 2, start |-> 7]

-----------------------------------------------------------------------------
(* Numeric literals, 7.8.3 *)

\* the input begins with a numeric literal that an identifier-start
\* character follows: a hexadecimal literal, a string of digits (decimal,
\* or octal under EXT1), or digits with a fraction
LiteralThenIdentifier ==
    \E p \in 2..Len(lexer.input) :
        /\ is_IdentifierStart(lexer.input[p])
        /\ \/ /\ p >= 4
              /\ lexer.input[1] = "0" /\ lexer.input[2] = "x"
              /\ \A i \in 3..(p - 1) : is_HexDigit(lexer.input[i])
              /\ ~is_HexDigit(lexer.input[p])
           \/ \A i \in 1..(p - 1) : is_UnicodeDigit(lexer.input[i])
           \/ /\ p >= 4
              /\ is_UnicodeDigit(lexer.input[1]) /\ lexer.input[2] = "."
              /\ \A i \in 3..(p - 1) : is_UnicodeDigit(lexer.input[i])
              /\ lexer.input[p] \notin {"e", "E"}

\* C21: a numeric literal of any form that an identifier-start character
\* follows immediately is rejected with a SyntaxError: the lexer delivers
\* no tNUMBER for it.
C21_DetritusRejected ==
    (LiteralThenIdentifier /\ lexer.state # "created") => lexer.state = "error"

-----------------------------------------------------------------------------
(* UTF-8 output *)

is_HighSurrogate(ch) == 55296 <= ch /\ ch <= 56319
is_LowSurrogate(ch) == 56320 <= ch /\ ch <= 57343

\* a high surrogate that no low surrogate follows, or a low surrogate that
\* no high surrogate precedes
Malformed(str) ==
    \E i \in DOMAIN str :
        \/ is_HighSurrogate(str[i]) /\ (i = Len(str) \/ ~is_LowSurrogate(str[i + 1]))
        \/ is_LowSurrogate(str[i]) /\ (i = 1 \/ ~is_HighSurrogate(str[i - 1]))

\* C22: the UTF-8 output encoder raises bad_utf16_string for every string
\* that contains a malformed surrogate sequence: a high surrogate that a
\* low surrogate does not follow, a high surrogate at the end, or a low
\* surrogate that a high surrogate does not precede.
C22_MalformedRejected ==
    (file.state \notin {"none", "open"} /\ Malformed(file.s)) => file.state = "bad_utf16_string"

-----------------------------------------------------------------------------
(* Associativity, 11.8 and 11.9 *)

NodeclassOf(op) ==
    IF op \in RelationalOperators
    THEN RelationalExpression_nodeclass(op, FALSE)
    ELSE EqualityExpression_nodeclass(op)

SameLevel(op1, op2) ==
    \/ op1 \in RelationalOperators /\ op2 \in RelationalOperators
    \/ op1 \in EqualityOperators /\ op2 \in EqualityOperators

\* the program whose one statement is the expression e
ProgramOf(e) == FunctionBody(SourceElements(<<ExpressionStatement(0, e)>>, <<>>, <<>>))

\* C23: the relational operators and the equality operators are parsed
\* left-associatively: a op1 b op2 c is built as (a op1 b) op2 c.
C23_LeftAssociative ==
    \A op1, op2 \in RelationalOperators \cup EqualityOperators :
        (parser.state = "parsed" /\ parser.tokens = Chain(op1, op2) /\ SameLevel(op1, op2))
        => /\ ~parser.err
           /\ parser.n = ProgramOf(Binary(NodeclassOf(op2),
                                           Binary(NodeclassOf(op1),
                                                  PrimaryExpression_ident("a"),
                                                  PrimaryExpression_ident("b")),
                                           PrimaryExpression_ident("c")))

-----------------------------------------------------------------------------
(* The NoIn productions, 12.6.3 *)

AInBNode ==
    Binary("RelationalExpression_in", PrimaryExpression_ident("a"), PrimaryExpression_ident("b"))

\* the node of each initialiser, with in as the relational operator
InitNode(init) ==
    CASE init = Parenthesised -> AInBNode
      [] init = Bracketed -> ArrayLiteral(1, <<[index |-> 0, expr |-> AInBNode]>>)
      [] init = Indexed -> MemberExpression_bracket(PrimaryExpression_ident("c"), AInBNode)
      [] init = ArgumentList -> CallExpression(PrimaryExpression_ident("c"), <<AInBNode>>)
      [] init = InFunctionBody -> FunctionExpression(<<>>, ProgramOf(AInBNode))

\* the one statement of the program parsed
TheStatement == parser.n.a.statements[1]

\* C24: in the initialiser of a for statement, in is not taken as a
\* relational operator at the top level (for (a in b); is a for-in
\* statement, for (a in b;;); is a SyntaxError), and it is the relational
\* operator inside a parenthesised, a bracketed, an argument-list or a
\* function-body sub-expression of the initialiser.
C24_NoIn ==
    parser.state = "parsed" =>
        /\ parser.tokens = ForIn =>
               /\ ~parser.err
               /\ TheStatement =
                      IterationStatement_forin(PrimaryExpression_ident("a"),
                                               PrimaryExpression_ident("b"), EmptyStatement(0))
        /\ parser.tokens = ForInit(AInB) => parser.err
        /\ \A init \in InSubExpression :
               parser.tokens = ForInit(init) =>
                   /\ ~parser.err
                   /\ TheStatement =
                          IterationStatement_for(InitNode(init), NoNode, NoNode, EmptyStatement(0))

-----------------------------------------------------------------------------
(* The label stack and the target stack *)

\* C25: parsing a complete statement leaves the label stack and the target
\* stack as they were before the statement: each target_push is undone by
\* a target_pop and each label_push by a label_pop, for every kind of
\* statement, break and continue statements that carry labels included.
C25_StacksRestored ==
    \A i \in DOMAIN parser.p.parsed :
        /\ parser.p.parsed[i].labels_after = parser.p.parsed[i].labels
        /\ parser.p.parsed[i].targets_after = parser.p.parsed[i].targets

\* the statements outside the functions of FunctionSources
OutsideFunction == {2, 4, 5}

\* the sources with the jump 1 outside every loop of its function
JumpInFunctionBody ==
    {src \in FunctionSources : \E j \in SrcJumps : src \in
        { SrcFunction(<<j>>), SrcWhile(2, SrcFunction(<<j>>)),
          SrcLabelled("a", SrcWhile(2, SrcFunction(<<j>>))),
          SrcSwitch(5, <<SrcFunction(<<j>>)>>), SrcWith(4, SrcFunction(<<j>>)),
          SrcLabelled("a", SrcBlock(<<SrcFunction(<<j>>)>>)) }}

\* C26: a break or continue in a function body never resolves to a loop, a
\* switch or a label outside the function body; a break with no loop
\* around it inside the function is a SyntaxError.
C26_FunctionBoundary ==
    parser.state = "parsed" =>
        /\ \A i \in DOMAIN parser.p.lookups :
               ~parser.p.lookups[i].err => parser.p.lookups[i].target \notin OutsideFunction
        /\ parser.source \in JumpInFunctionBody => parser.err

-----------------------------------------------------------------------------
(* Lookahead *)

\* the token the lexer produced k tokens after the consumed ones; the lexer
\* stays on tEND
Produced(k) ==
    parser.p.lex.tokens[IF Len(parser.consumed) + 1 + k <= Len(parser.p.lex.tokens)
                        THEN Len(parser.consumed) + 1 + k
                        ELSE Len(parser.p.lex.tokens)]

\* C27: for every interleaving of NEXT, SKIP and lookahead(n), the tokens
\* consumed, each with its value, line number and follows-newline bit, are
\* the tokens the lexer produced, in order; the next token read is the
\* first one not consumed; lookahead(n) gives the token n further on,
\* consumes nothing and overwrites no buffered token that is not consumed.
C27_FaithfulTokens ==
    parser.state = "reading" =>
        /\ parser.consumed = SubSeq(parser.p.lex.tokens, 1, Len(parser.consumed))
        /\ NEXT_token(parser.p) = Produced(0)
        /\ parser.peek.token # "none" => parser.peek.token = Produced(parser.peek.n).token
        /\ \A k \in 0..(((UNGET_MAX + parser.p.unget_end - parser.p.unget) % UNGET_MAX) - 1) :
               parser.p.unget_buf[(parser.p.unget + k) % UNGET_MAX] = Produced(k)

\* two tokens were consumed from the ring, the third one is buffered in
\* the last slot, the ring has wrapped around, and lookahead(1) gave the
\* fourth token, which the lexer holds
C27_Witness ==
    /\ parser.state = "reading"
    /\ Len(parser.consumed) = 2
    /\ parser.p.unget = 2
    /\ parser.p.unget_end = 0
    /\ NEXT(parser.p) = "tIDENT"
    /\ parser.peek = [n |-> 1, token |-> ":"]

-----------------------------------------------------------------------------
(* Line numbers *)

\* the line the position is on: the first line is 1, and each
\* LineTerminator before the position begins a new line
LineOf(input, pos) == 1 + Cardinality({k \in 1..(pos - 1) : is_LineTerminator(input[k])})

\* C28: after SEE_lex_init and after every SEE_lex_next, next_lineno is the
\* number of the line on which the token in lex->next starts, for inputs
\* with // comments, /* */ comments and SGML comments too.
C28_LineNumber ==
    \A i \in DOMAIN lexer.tokens :
        lexer.tokens[i].lineno = LineOf(lexer.input, lexer.tokens[i].start)

-----------------------------------------------------------------------------
(* Argument lists *)

\* the format characters of the model that stand for an argument
ArgChars == {"s", "n", "v", "o", "O", "x"}

\* the number of argument characters among the first f of the format
Ordinal(fmt, f) == Cardinality({k \in 1..f : fmt[k] \in ArgChars})

\* C29: SEE_call_args with a format of n recognised argument characters
\* returns normally after it called the callee once with argc = n; it
\* aborts only for a character that is not recognised.
C29_CalleeInvokedOnce ==
    (/\ cfargs.state \in {"called", "SEE_ABORT"}
     /\ \A k \in DOMAIN cfargs.fmt : cfargs.fmt[k] \in {"s", "n", "O", "o", "x", " "}
     /\ \A k \in DOMAIN cfargs.fmt :
            cfargs.fmt[k] = "o" => cfargs.ap[Ordinal(cfargs.fmt, k)] # NULL)
    => /\ cfargs.state = "called"
       /\ Len(cfargs.calls) = 1
       /\ cfargs.calls[1].argc = Ordinal(cfargs.fmt, Len(cfargs.fmt))

\* C30: SEE_parse_args consumes one element of argv for each argument
\* character of the format: the k-th argument character is converted from
\* argv[k-1], or is treated as absent when k > argc, for every format
\* character, o included.
C30_OneArgumentEach ==
    \A k \in DOMAIN cfargs.out :
        \/ cfargs.out[k].i = k - 1
        \/ k > Len(cfargs.argv) /\ cfargs.out[k].i >= Len(cfargs.argv)
====
